---- MODULE Spec2Model ----
(***************************************************************************)
(* Admin Klaus: the execution orchestrator (AdminKlaus), the remote        *)
(* session manager (SSHManager) and the bounded context store              *)
(* (ContextManager), modelled as one state machine.                        *)
(*                                                                         *)
(* Text is modelled as a sequence of one-character strings, so that        *)
(* trimming, regular-expression matching, quoting and substring            *)
(* containment are computed and not assumed.  Fixed messages of the        *)
(* program that are never scanned are one-element sequences holding the    *)
(* whole message.                                                          *)
(***************************************************************************)
EXTENDS Integers, Sequences, FiniteSets, TLC

(***************************************************************************)
(* Bounds of the model                                                     *)
(***************************************************************************)
\* commands the planner may request over one run
MaxCmds == 2
\* tool calls the planner may send over one run
MaxCalls == 2
\* lines the operator enters at the REPL prompt
MaxInputs == 2
\* faults of the environment over one run: a failed connect, a channel that
\* cannot be opened, a timeout, a transport closed by the remote side, a
\* failed planner call
MaxFaults == 1
\* output chunks the remote side sends before a streaming channel closes
MaxChunks == 1
\* connect calls a caller of the session makes
MaxConnects == 2
\* executeMany and executeStreaming calls a caller of the session makes
MaxSessionCalls == 1
\* commands handed to one executeMany call
MaxManyLen == 3
\* the context size handed to the ContextManager constructor in the store runs
SmallContext == 200
\* entries pushed to each log between two clear() calls, and how many of the
\* communication entries may be Klaus's
MaxLogged == 22
MaxOutputs == 4
MaxKlaus == 1
\* messages between two clear() calls that leave no entry in the communication
\* log (tool results, assistant contents without text)
MaxSilent == 2
\* the context size and the length of a long command output in the runs of
\* the compaction tiers
TierContext == 642
LongLen == 400
\* the longest elevation credential wrapped in the runs of the wrapping alone
MaxCredLen == 3

(***************************************************************************)
(* Text helpers                                                            *)
(***************************************************************************)
\* null and the empty string: both are falsy in every test the code makes
NULL == <<>>

Falsy(x) == x = NULL

\* JavaScript \s and String.prototype.trim white space (the part in use)
IsWhitespace(c) == c \in {" ", "\t", "\n", "\r"}

IsDigit(c) == c \in {"0", "1", "2", "3", "4", "5", "6", "7", "8", "9"}

UpperCase == <<"A", "B", "C", "D", "E", "F", "G", "H", "I", "J", "K", "L", "M", "N", "O", "P", "Q", "R", "S", "T", "U", "V", "W", "X", "Y", "Z">>

LowerCase == <<"a", "b", "c", "d", "e", "f", "g", "h", "i", "j", "k", "l", "m", "n", "o", "p", "q", "r", "s", "t", "u", "v", "w", "x", "y", "z">>

\* String.prototype.toLowerCase on one character
toLowerCase(c) ==
  IF \E k \in 1..Len(UpperCase) : UpperCase[k] = c
  THEN LowerCase[CHOOSE k \in 1..Len(UpperCase) : UpperCase[k] = c]
  ELSE c

RECURSIVE TrimStart(_)
TrimStart(s) ==
  IF s # <<>> /\ IsWhitespace(Head(s)) THEN TrimStart(Tail(s)) ELSE s

RECURSIVE TrimEnd(_)
TrimEnd(s) ==
  IF s # <<>> /\ IsWhitespace(s[Len(s)])
  THEN TrimEnd(SubSeq(s, 1, Len(s) - 1))
  ELSE s

\* String.prototype.trim
Trim(s) == TrimEnd(TrimStart(s))

\* lit occurs in s starting at position i
OccursAt(lit, s, i) ==
  /\ i + Len(lit) - 1 <= Len(s)
  /\ \A k \in 1..Len(lit) : s[i + k - 1] = lit[k]

\* the same, ignoring case (the /i flag)
OccursAtIgnoreCase(lit, s, i) ==
  /\ i + Len(lit) - 1 <= Len(s)
  /\ \A k \in 1..Len(lit) : toLowerCase(s[i + k - 1]) = toLowerCase(lit[k])

\* String.prototype.includes
Includes(s, lit) == \E i \in 1..(Len(s) + 1) : OccursAt(lit, s, i)

(***************************************************************************)
(* Regular expressions of streamingCommandPatterns.  A pattern is the      *)
(* sequence of its pieces; every pattern is anchored at the start (^) and  *)
(* open at the end.  MatchPiece gives the positions at which the rest of   *)
(* the pattern may continue.                                               *)
(***************************************************************************)
MatchPiece(p, s, i) ==
  CASE p[1] = "lit" ->
         IF OccursAt(p[2], s, i) THEN {i + Len(p[2])} ELSE {}
    [] p[1] = "liti" ->
         IF OccursAtIgnoreCase(p[2], s, i) THEN {i + Len(p[2])} ELSE {}
    [] p[1] = "opt" ->
         {i} \cup (IF OccursAt(p[2], s, i) THEN {i + Len(p[2])} ELSE {})
    [] p[1] = "opti" ->
         {i} \cup (IF OccursAtIgnoreCase(p[2], s, i) THEN {i + Len(p[2])} ELSE {})
    [] p[1] = "alt" ->
         {i + Len(p[2][k]) : k \in {j \in 1..Len(p[2]) : OccursAt(p[2][j], s, i)}}
    [] p[1] = "ws+" ->
         {j \in (i + 1)..(Len(s) + 1) : \A k \in i..(j - 1) : IsWhitespace(s[k])}
    [] p[1] = "digit+" ->
         {j \in (i + 1)..(Len(s) + 1) : \A k \in i..(j - 1) : IsDigit(s[k])}
    [] p[1] = "any*" ->
         {j \in i..(Len(s) + 1) : \A k \in i..(j - 1) : s[k] \notin {"\n", "\r"}}
    [] p[1] = "wsOrEnd" ->
         IF i = Len(s) + 1 THEN {i}
         ELSE IF i <= Len(s) /\ IsWhitespace(s[i]) THEN {i + 1} ELSE {}

RECURSIVE MatchFrom(_, _, _, _)
MatchFrom(pattern, k, s, i) ==
  IF k > Len(pattern) THEN TRUE
  ELSE \E j \in MatchPiece(pattern[k], s, i) : MatchFrom(pattern, k + 1, s, j)

\* RegExp.prototype.test for a pattern that starts with ^
RegExpTest(pattern, s) == MatchFrom(pattern, 1, s, 1)

streamingCommandPatterns ==
  <<
     << <<"liti", <<"p", "m", "2">>>>,
        <<"ws+", <<>>>>,
        <<"liti", <<"l", "o", "g">>>>,
        <<"opti", <<"s">>>> >>,
     << <<"lit", <<"t", "a", "i", "l">>>>,
        <<"ws+", <<>>>>,
        <<"alt", <<<<"-", "f">>, <<"-", "F">>, <<"-", "-", "f", "o", "l", "l", "o", "w">>>>>> >>,
     << <<"lit", <<"j", "o", "u", "r", "n", "a", "l", "c", "t", "l">>>>,
        <<"ws+", <<>>>>,
        <<"any*", <<>>>>,
        <<"lit", <<"-", "f">>>> >>,
     << <<"lit", <<"w", "a", "t", "c", "h">>>>,
        <<"ws+", <<>>>> >>,
     << <<"lit", <<"h", "t", "o", "p">>>>,
        <<"wsOrEnd", <<>>>> >>,
     << <<"lit", <<"t", "o", "p">>>>,
        <<"wsOrEnd", <<>>>> >>,
     << <<"lit", <<"l", "e", "s", "s">>>>,
        <<"wsOrEnd", <<>>>> >>,
     << <<"lit", <<"m", "o", "r", "e">>>>,
        <<"wsOrEnd", <<>>>> >>,
     << <<"lit", <<"v", "i">>>>,
        <<"opt", <<"m">>>>,
        <<"wsOrEnd", <<>>>> >>,
     << <<"lit", <<"n", "a", "n", "o">>>>,
        <<"wsOrEnd", <<>>>> >>,
     << <<"lit", <<"d", "o", "c", "k", "e", "r">>>>,
        <<"ws+", <<>>>>,
        <<"lit", <<"l", "o", "g", "s">>>>,
        <<"ws+", <<>>>>,
        <<"any*", <<>>>>,
        <<"lit", <<"-", "f">>>> >>,
     << <<"lit", <<"d", "o", "c", "k", "e", "r", "-", "c", "o", "m", "p", "o", "s", "e">>>>,
        <<"ws+", <<>>>>,
        <<"lit", <<"l", "o", "g", "s">>>>,
        <<"ws+", <<>>>>,
        <<"any*", <<>>>>,
        <<"lit", <<"-", "f">>>> >>,
     << <<"lit", <<"k", "u", "b", "e", "c", "t", "l">>>>,
        <<"ws+", <<>>>>,
        <<"lit", <<"l", "o", "g", "s">>>>,
        <<"ws+", <<>>>>,
        <<"any*", <<>>>>,
        <<"lit", <<"-", "f">>>> >>,
     << <<"lit", <<"p", "i", "n", "g">>>>,
        <<"ws+", <<>>>> >>,
     << <<"lit", <<"t", "c", "p", "d", "u", "m", "p">>>>,
        <<"wsOrEnd", <<>>>> >>,
     << <<"lit", <<"d", "m", "e", "s", "g">>>>,
        <<"ws+", <<>>>>,
        <<"any*", <<>>>>,
        <<"lit", <<"-", "w">>>> >>,
     << <<"lit", <<"i", "o", "s", "t", "a", "t">>>>,
        <<"ws+", <<>>>>,
        <<"any*", <<>>>>,
        <<"digit+", <<>>>> >>,
     << <<"lit", <<"v", "m", "s", "t", "a", "t">>>>,
        <<"ws+", <<>>>>,
        <<"any*", <<>>>>,
        <<"digit+", <<>>>> >>,
     << <<"lit", <<"s", "a", "r">>>>,
        <<"ws+", <<>>>>,
        <<"any*", <<>>>>,
        <<"digit+", <<>>>> >>,
     << <<"lit", <<"n", "m", "o", "n">>>>,
        <<"wsOrEnd", <<>>>> >>,
     << <<"lit", <<"i", "o", "t", "o", "p">>>>,
        <<"wsOrEnd", <<>>>> >>,
     << <<"lit", <<"i", "f", "t", "o", "p">>>>,
        <<"wsOrEnd", <<>>>> >>,
     << <<"lit", <<"n", "e", "t", "h", "o", "g", "s">>>>,
        <<"wsOrEnd", <<>>>> >>,
     << <<"lit", <<"m", "u", "l", "t", "i", "t", "a", "i", "l">>>>,
        <<"wsOrEnd", <<>>>> >>
  >>

\* AdminKlaus.isStreamingCommand
isStreamingCommand(command) ==
  LET trimmedCommand == Trim(command)
  IN  \E n \in 1..Len(streamingCommandPatterns) :
        RegExpTest(streamingCommandPatterns[n], trimmedCommand)

(***************************************************************************)
(* Fixed texts of the program                                              *)
(***************************************************************************)
DeclinedText == <<"User declined to execute this command.">>

AbortedText == <<"User chose to abort after command failure.">>

DeclinedReason == <<"User declined">>

SudoNotConfiguredText ==
  <<"Sudo password not configured. Please reconnect with /connect and provide a sudo password when prompted.">>

NotConnectedText == <<"Not connected to any server">>

TimeoutText == <<"Command timed out after 60000ms">>

\* Date.prototype.toISOString: always 24 characters
Timestamp == <<"2", "0", "2", "6", "-", "0", "1", "-", "0", "1", "T", "0", "0", ":", "0", "0", ":", "0", "0", ".", "0", "0", "0", "Z">>

(***************************************************************************)
(* JSON.stringify, for the values the orchestrator serialises              *)
(***************************************************************************)
JSONEscapeChar(c) ==
  CASE c = "\"" -> <<"\\", "\"">>
    [] c = "\\" -> <<"\\", "\\">>
    [] c = "\n" -> <<"\\", "n">>
    [] c = "\r" -> <<"\\", "r">>
    [] c = "\t" -> <<"\\", "t">>
    [] OTHER -> <<c>>

RECURSIVE JSONEscape(_)
JSONEscape(s) ==
  IF s = <<>> THEN <<>> ELSE JSONEscapeChar(Head(s)) \o JSONEscape(Tail(s))

JSONString(s) == <<"\"">> \o JSONEscape(s) \o <<"\"">>

Digits == <<"0", "1", "2", "3", "4", "5", "6", "7", "8", "9">>

RECURSIVE NumberToString(_)
NumberToString(n) ==
  IF n < 10 THEN <<Digits[n + 1]>>
  ELSE NumberToString(n \div 10) \o <<Digits[(n % 10) + 1]>>

JSONBoolean(b) == IF b THEN <<"true">> ELSE <<"false">>

\* result.aborted || false
AbortedOf(r) == IF "aborted" \in DOMAIN r THEN r.aborted ELSE FALSE

\* JSON.stringify({exitCode, stdout, stderr, success, aborted})
StringifyResult(r) ==
  <<"{", "\"exitCode\":">> \o NumberToString(r.exitCode)
    \o <<",", "\"stdout\":">> \o JSONString(r.stdout)
    \o <<",", "\"stderr\":">> \o JSONString(r.stderr)
    \o <<",", "\"success\":">> \o JSONBoolean(r.exitCode = 0)
    \o <<",", "\"aborted\":">> \o JSONBoolean(AbortedOf(r))
    \o <<"}">>

\* one element of sequenceResults, as JSON.stringify writes it
StringifyEntry(e) ==
  IF "skipped" \in DOMAIN e
  THEN <<"{", "\"command\":">> \o JSONString(e.command)
         \o <<",", "\"skipped\":">> \o JSONBoolean(e.skipped)
         \o <<",", "\"reason\":">> \o JSONString(e.reason)
         \o <<"}">>
  ELSE <<"{", "\"command\":">> \o JSONString(e.command)
         \o <<",", "\"exitCode\":">> \o NumberToString(e.exitCode)
         \o <<",", "\"stdout\":">> \o JSONString(e.stdout)
         \o <<",", "\"stderr\":">> \o JSONString(e.stderr)
         \o <<",", "\"success\":">> \o JSONBoolean(e.success)
         \o <<",", "\"aborted\":">> \o JSONBoolean(e.aborted)
         \o <<"}">>

RECURSIVE StringifyEntries(_)
StringifyEntries(es) ==
  IF es = <<>> THEN <<>>
  ELSE StringifyEntry(Head(es))
         \o (IF Tail(es) = <<>> THEN <<>> ELSE <<",">>)
         \o StringifyEntries(Tail(es))

\* JSON.stringify(sequenceResults)
StringifySequence(es) == <<"[">> \o StringifyEntries(es) \o <<"]">>

(***************************************************************************)
(* SSHManager: the elevation wrapping of execute and executeStreaming      *)
(***************************************************************************)
RECURSIVE EscapeQuotes_Backslash(_)
\* an escape that puts a backslash in front of the quote
EscapeQuotes_Backslash(s) ==
  IF s = <<>> THEN <<>>
  ELSE (IF Head(s) = "'" THEN <<"\\", "'">> ELSE <<Head(s)>>)
         \o EscapeQuotes_Backslash(Tail(s))

RECURSIVE EscapeQuotes(_)
\* sudoPassword.replace(/'/g, "'\\''")
EscapeQuotes(s) ==
  IF s = <<>> THEN <<>>
  ELSE (IF Head(s) = "'" THEN <<"'", "\\", "'", "'">> ELSE <<Head(s)>>)
         \o EscapeQuotes(Tail(s))

SudoPrefix(sudoPassword) ==
  <<"e", "c", "h", "o", " ", "'">> \o EscapeQuotes(sudoPassword)
    \o <<"'", " ", "|", " ", "s", "u", "d", "o", " ", "-", "S", " ", "-", "p", " ", "'", "'", " ">>

\* a wrapping that tidies the command text
FullCommand_Trimmed(command, options) ==
  IF options.sudo THEN SudoPrefix(options.sudoPassword) \o Trim(command)
  ELSE Trim(command)

\* fullCommand of execute / executeStreaming
FullCommand(command, options) ==
  IF options.sudo THEN SudoPrefix(options.sudoPassword) \o command ELSE command

(***************************************************************************)
(* ContextManager.  A store is the record of its three lists; every        *)
(* operation is given the store and yields the store it leaves.            *)
(***************************************************************************)
RECURSIVE Join(_, _)
\* Array.prototype.join
Join(parts, sep) ==
  IF parts = <<>> THEN <<>>
  ELSE IF Len(parts) = 1 THEN parts[1]
  ELSE parts[1] \o sep \o Join(Tail(parts), sep)

LogSeparator == <<"\n", "\n", "-", "-", "-", "\n", "\n">>

\* ContextManager.estimateTokens on a string: Math.ceil(length * 0.25)
estimateTokens(text) == (Len(text) + 3) \div 4

getCommunicationLogString(communicationLog) ==
  Join([k \in 1..Len(communicationLog) |->
          <<"[">> \o Timestamp \o <<"]", " ">> \o communicationLog[k].role
            \o <<":", "\n">> \o communicationLog[k].content],
       LogSeparator)

getCommandLogString(commandLog) ==
  Join([k \in 1..Len(commandLog) |->
          <<"[">> \o Timestamp \o <<"]", " ">>
            \o (IF commandLog[k].success THEN <<"+">> ELSE <<"x">>)
            \o <<" ", "$", " ">> \o commandLog[k].command
            \o <<"\n", "E", "x", "i", "t", ":", " ">> \o NumberToString(commandLog[k].exitCode)
            \o <<"\n">> \o commandLog[k].output],
       LogSeparator)

RECURSIVE compactCommandLog_ToEmpty(_, _)
\* a loop without the length test
compactCommandLog_ToEmpty(commandLog, cmdLogTokens) ==
  IF commandLog # <<>>
     /\ 2 * estimateTokens(getCommandLogString(commandLog)) > cmdLogTokens
  THEN compactCommandLog_ToEmpty(Tail(commandLog), cmdLogTokens)
  ELSE commandLog

RECURSIVE compactCommandLog(_, _)
\* the target is cmdLogTokens / 2: "estimate > target" is 2 * estimate > cmdLogTokens
compactCommandLog(commandLog, cmdLogTokens) ==
  IF Len(commandLog) > 1
     /\ 2 * estimateTokens(getCommandLogString(commandLog)) > cmdLogTokens
  THEN compactCommandLog(Tail(commandLog), cmdLogTokens)
  ELSE commandLog

minKeep == 20

\* keeps the first minKeep elements instead of the last
KeepLast_Oldest(list) ==
  IF Len(list) > minKeep THEN SubSeq(list, 1, minKeep) ELSE list

\* the last minKeep elements: shift() while length > minKeep
KeepLast(list) ==
  IF Len(list) > minKeep
  THEN SubSeq(list, Len(list) - minKeep + 1, Len(list))
  ELSE list

\* a compaction that trims the message list and leaves the log as it is
compactCommunicationLog_MessagesOnly(c) ==
  [c EXCEPT !.messages = KeepLast(c.messages)]

compactCommunicationLog(c) ==
  [c EXCEPT !.communicationLog = KeepLast(c.communicationLog),
            !.messages = KeepLast(c.messages)]

\* a compaction that runs on every append, whatever the two logs hold
checkAndCompact_Always(c, maxTokens) ==
  LET c1 == [c EXCEPT !.commandLog =
               compactCommandLog(c.commandLog,
                                 estimateTokens(getCommandLogString(c.commandLog)))]
  IN  IF 100 * estimateTokens(getCommunicationLogString(c1.communicationLog))
           > 33 * maxTokens
      THEN compactCommunicationLog(c1)
      ELSE c1

checkAndCompact(c, maxTokens) ==
  LET commLogTokens == estimateTokens(getCommunicationLogString(c.communicationLog))
      cmdLogTokens == estimateTokens(getCommandLogString(c.commandLog))
      totalTokens == commLogTokens + cmdLogTokens
      c1 == IF cmdLogTokens > 0
            THEN [c EXCEPT !.commandLog = compactCommandLog(c.commandLog, cmdLogTokens)]
            ELSE c
      newCommTokens == estimateTokens(getCommunicationLogString(c1.communicationLog))
  IN  IF 2 * totalTokens > maxTokens
      THEN IF 100 * newCommTokens > 33 * maxTokens
           THEN compactCommunicationLog(c1)
           ELSE c1
      ELSE c

\* the text blocks of an assistant content, joined by a line feed
TextContent(content) ==
  Join([k \in 1..Len(SelectSeq(content, LAMBDA b : b.type = "text")) |->
          SelectSeq(content, LAMBDA b : b.type = "text")[k].text],
       <<"\n">>)

\* kind is "string" for a string content, "blocks" for an assistant content
\* array and "tool_results" for the array handed to continueWithToolResults
\* what addMessage pushes, before it calls checkAndCompact
pushMessage(c, role, kind, content) ==
  LET pushed == [c EXCEPT !.messages =
                   Append(@, [role |-> role, kind |-> kind, content |-> content])]
      logged ==
        IF role = "user" /\ kind = "string"
        THEN [pushed EXCEPT !.communicationLog =
                Append(@, [role |-> <<"U", "s", "e", "r">>, content |-> content])]
        ELSE IF role = "assistant"
        THEN LET textContent == IF kind = "string" THEN content
                                ELSE TextContent(content)
             IN  IF textContent # <<>>
                 THEN [pushed EXCEPT !.communicationLog =
                         Append(@, [role |-> <<"K", "l", "a", "u", "s">>,
                                    content |-> textContent])]
                 ELSE pushed
        ELSE pushed
  IN  logged

addMessage(c, maxTokens, role, kind, content) ==
  checkAndCompact(pushMessage(c, role, kind, content), maxTokens)

\* what addCommandOutput pushes, before it calls checkAndCompact
pushCommandOutput(c, command, output, exitCode) ==
  [c EXCEPT !.commandLog =
     Append(@, [command |-> command, output |-> output,
                exitCode |-> exitCode, success |-> (exitCode = 0)])]

addCommandOutput(c, maxTokens, command, output, exitCode) ==
  checkAndCompact(pushCommandOutput(c, command, output, exitCode), maxTokens)

\* a clear that empties the two logs only
clear_LogsOnly(c) == [c EXCEPT !.communicationLog = <<>>, !.commandLog = <<>>]

clear(c) == [messages |-> <<>>, communicationLog |-> <<>>, commandLog |-> <<>>]

(***************************************************************************)
(* State                                                                   *)
(***************************************************************************)
VARIABLES
  \* SSHManager
  isConnected,       \* this.isConnected
  connection,        \* this.connection: 0 is null, n > 0 the n-th Client created
  channel,           \* the exec call in flight: "none", "pending" (callback
                     \* not yet run) or "open" (stream handed to the callback)
  fullCommand,       \* the text handed to connection.exec by the call in flight
  aborted,           \* the aborted flag of the executeStreaming call in flight
  stdout,            \* stdout of the executeStreaming call in flight
  stderr,            \* stderr of the executeStreaming call in flight
  graceTimers,       \* the command instances whose abort() has a timer running
  execTimers,        \* the execute calls whose timeoutId is armed
  closingStreams,    \* the execute calls whose stream the timer has closed and
                     \* whose 'close' event has not been handled yet
  transports,        \* the Clients created so far: "connecting", "ready", "closed"
  many,              \* the executeMany call of a caller of the session
  route,             \* a request and the call handleToolCalls chooses for it
  \* CLI
  keyCapture,        \* a streaming key listener is installed
  \* AdminKlaus
  sudoPassword,      \* this.sudoPassword
  pc,                \* where the REPL / processMessage / handleToolCalls stands
  toolCalls,         \* response.toolCalls being handled
  tc,                \* position of the outer loop of handleToolCalls
  ci,                \* position of the inner loop (0: a single execute_command)
  results,           \* results of handleToolCalls
  sequenceResults,   \* sequenceResults of the sequence being handled
  \* ContextManager
  maxContextTokens,
  messages,
  communicationLog,
  commandLog,
  \* bookkeeping of the model
  trace,             \* what has been shown, asked, answered, called and logged
  turn,              \* handleToolCalls invocations so far
  callsUsed,         \* tool calls sent by the planner so far
  cmdsUsed,          \* commands requested by the planner so far
  inputs,            \* lines entered at the REPL prompt so far
  faults,            \* faults of the environment so far
  appended           \* every entry pushed to the two logs since the last clear

vars ==
  <<isConnected, connection, channel, fullCommand, aborted, keyCapture,
    sudoPassword, pc, toolCalls, tc, ci, results, sequenceResults,
    maxContextTokens, messages, communicationLog, commandLog,
    trace, turn, callsUsed, cmdsUsed, inputs, faults,
    stdout, stderr, graceTimers, execTimers, closingStreams, transports, many,
    appended, route>>

sshVars == <<isConnected, connection, channel, fullCommand, aborted>>

streamVars == <<stdout, stderr, graceTimers, execTimers, closingStreams>>

\* the state of the session and of the store used by their direct callers
apiVars == <<transports, many, appended, route>>

\* no executeMany call has been made
NoMany ==
  [state |-> "idle", commands |-> <<>>, sudo |-> FALSE, sudoPassword |-> <<>>,
   i |-> 0, results |-> <<>>]

\* no request has been routed
NoRoute == [request |-> <<>>, target |-> "none"]

\* nothing has been pushed to the logs yet
NoneAppended == [messages |-> <<>>, communicationLog |-> <<>>, commandLog |-> <<>>]

loopVars == <<toolCalls, tc, ci, results, sequenceResults>>

storeVars == <<maxContextTokens, messages, communicationLog, commandLog>>

boundVars == <<turn, callsUsed, cmdsUsed, inputs, faults>>

\* a fault of the environment is taken from the budget
Fault(occurs) ==
  IF occurs
  THEN faults < MaxFaults /\ faults' = faults + 1
  ELSE UNCHANGED faults

Store ==
  [messages |-> messages, communicationLog |-> communicationLog,
   commandLog |-> commandLog]

SetStore(c) ==
  /\ messages' = c.messages
  /\ communicationLog' = c.communicationLog
  /\ commandLog' = c.commandLog
  /\ UNCHANGED maxContextTokens

(***************************************************************************)
(* The inputs of the model: what the operator types, what the planner      *)
(* requests and what the remote host answers                               *)
(***************************************************************************)
\* the elevation credentials the operator may enter at /connect
Credentials == {<<"p", "w">>}

\* what the operator may type at a yes/no prompt
Answers == {<<"y">>, <<" ", "Y", "e", "s">>, <<"n">>, <<"o", "k">>, <<>>}

\* what the operator means by an answer to a "(y/n)" prompt: yes if and only
\* if the answer starts with a y
Affirmative(answer) ==
  \E i \in 1..Len(answer) :
    /\ answer[i] \in {"y", "Y"}
    /\ \A k \in 1..(i - 1) : IsWhitespace(answer[k])

UserMessages == {<<"g", "o">>}

PlannerTexts == {<<>>, <<"o", "k">>}

\* a tri-state flag of a tool input: "true", "false" or "undefined" (absent)
Truthy(flag) == flag = "true"

CommandRequests ==
  { [command |-> <<"l", "s">>, explanation |-> <<"list">>,
     requires_sudo |-> "undefined", is_streaming |-> "undefined"],
    [command |-> <<"i", "d">>, explanation |-> <<"who">>,
     requires_sudo |-> "true", is_streaming |-> "false"],
    [command |-> <<"t", "o", "p", " ">>, explanation |-> <<"monitor">>,
     requires_sudo |-> "true", is_streaming |-> "undefined"] }

SeqsUpTo(S, n) == UNION {[1..m -> S] : m \in 0..n}

\* name and input of the tool calls the planner may send; run_script is a
\* name the orchestrator does not know
ToolShapes ==
  {[name |-> "execute_command", input |-> r] : r \in CommandRequests}
  \cup {[name |-> "execute_command_sequence", input |-> [commands |-> cs]] :
          cs \in SeqsUpTo(CommandRequests, MaxCmds)}
  \cup {[name |-> "run_script", input |-> [commands |-> <<>>]]}

CmdCount(shape) ==
  IF shape.name = "execute_command" THEN 1
  ELSE IF shape.name = "execute_command_sequence" THEN Len(shape.input.commands)
  ELSE 0

RECURSIVE BatchCmdCount(_)
BatchCmdCount(batch) ==
  IF batch = <<>> THEN 0 ELSE CmdCount(Head(batch)) + BatchCmdCount(Tail(batch))

ToolUseId(t, k) == 10 * t + k

\* the tool_use blocks of the response that starts turn t
ToolBlocks(batch, t) ==
  [k \in 1..Len(batch) |->
     [type |-> "tool_use", id |-> ToolUseId(t, k),
      name |-> batch[k].name, input |-> batch[k].input]]

TextBlocks(text) ==
  IF text = <<>> THEN <<>> ELSE <<[type |-> "text", text |-> text]>>

\* what a remote shell may answer to the command line it was handed: success,
\* a failure whose message quotes the command line (as a shell does for a
\* line it cannot parse), and a failure printing an arbitrary sentence
ShellEcho(line) == <<"bash: -c: line 1: ">> \o line

RemoteResults(line) ==
  { [stdout |-> <<"o", "k", "\n">>, stderr |-> <<>>, code |-> 0],
    [stdout |-> <<>>, stderr |-> ShellEcho(line) \o <<"\n">>, code |-> 2],
    [stdout |-> <<>>, stderr |-> DeclinedText, code |-> 1] }

\* the chunks a remote process may write while its channel is open; the
\* listeners of stdout and of stderr are the same code, one stream is drawn
Chunks == { [fd |-> "stdout", text |-> <<"x">>] }

ChannelErrorText == <<"(SSH) Channel open failure">>

TestCommand == <<"echo \"Connection OK\" && whoami && hostname">>

(***************************************************************************)
(* The record of events.  inst names a command instance: the turn, the     *)
(* position of the tool call in the batch and the position in the sequence *)
(* (0 for a single execute_command).                                       *)
(***************************************************************************)
Event(ev, inst, text, flag, code, opt) ==
  [ev |-> ev, inst |-> inst, text |-> text, flag |-> flag, code |-> code,
   opt |-> opt]

NoInst == <<0, 0, 0>>

Inst == <<turn, tc, ci>>

(***************************************************************************)
(* AdminKlaus: helpers of handleToolCalls                                  *)
(***************************************************************************)
\* a confirm that takes everything but an explicit n for a yes
confirm_NotNo(answer) ==
  LET a == Trim(answer) IN a = <<>> \/ toLowerCase(a[1]) # "n"

\* CLI.confirm: prompt() trims the answer, confirm tests
\* answer.toLowerCase().startsWith('y')
confirm(answer) ==
  LET a == Trim(answer) IN a # <<>> /\ toLowerCase(a[1]) = "y"

CurrentRequest ==
  IF ci = 0 THEN toolCalls[tc].input ELSE toolCalls[tc].input.commands[ci]

\* is_streaming || this.isStreamingCommand(command)
shouldStream(req) == Truthy(req.is_streaming) \/ isStreamingCommand(req.command)

\* options built without the early return: with no credential held the
\* command goes out unelevated
SudoOptions_NoEarlyReturn(requiresSudo, password) ==
  IF Truthy(requiresSudo) /\ ~Falsy(password)
  THEN [missing |-> FALSE, sudo |-> TRUE, sudoPassword |-> password]
  ELSE [missing |-> FALSE, sudo |-> FALSE, sudoPassword |-> <<>>]

\* the options executeCommand / executeStreamingCommand build; missing means
\* the early return for an elevated command without a held credential
SudoOptions(requiresSudo, password) ==
  IF Truthy(requiresSudo)
  THEN IF Falsy(password)
       THEN [missing |-> TRUE, sudo |-> FALSE, sudoPassword |-> <<>>]
       ELSE [missing |-> FALSE, sudo |-> TRUE, sudoPassword |-> password]
  ELSE [missing |-> FALSE, sudo |-> FALSE, sudoPassword |-> <<>>]

\* a catch block that reports the error as a success
LocalResult_ExitZero(text, streaming) ==
  IF streaming
  THEN [stdout |-> <<>>, stderr |-> text, exitCode |-> 0, aborted |-> FALSE]
  ELSE [stdout |-> <<>>, stderr |-> text, exitCode |-> 0]

\* SSHManager.execute / executeStreaming throws or rejects with err.message
Rejected(message) == Event("reject", Inst, message, FALSE, 0, <<>>)

\* a catch block of executeStreamingCommand that reports a cancel
LocalResult_MarkedAborted(text, streaming) ==
  IF streaming
  THEN [stdout |-> <<>>, stderr |-> text, exitCode |-> 1, aborted |-> TRUE]
  ELSE [stdout |-> <<>>, stderr |-> text, exitCode |-> 1]

\* the result objects built by the orchestrator itself; executeCommand
\* builds them without the aborted field
LocalResult(text, streaming) ==
  IF streaming
  THEN [stdout |-> <<>>, stderr |-> text, exitCode |-> 1, aborted |-> FALSE]
  ELSE [stdout |-> <<>>, stderr |-> text, exitCode |-> 1]

\* result.stdout + (result.stderr ? '\n' + result.stderr : '')
CombinedOutput(r) ==
  r.stdout \o (IF r.stderr # <<>> THEN <<"\n">> \o r.stderr ELSE <<>>)

ToolResult(id, content) ==
  [type |-> "tool_result", tool_use_id |-> id, content |-> content]

\* a content that hands the planner the bare error text of the result
ResultContent_BareStderr(r) ==
  IF r.exitCode # 0 THEN r.stderr ELSE StringifyResult(r)

\* the content pushed for an executed single command
ResultContent(r) == StringifyResult(r)

SkippedEntry(req) ==
  [command |-> req.command, skipped |-> TRUE, reason |-> DeclinedReason]

ResultEntry(req, r) ==
  [command |-> req.command, exitCode |-> r.exitCode, stdout |-> r.stdout,
   stderr |-> r.stderr, success |-> (r.exitCode = 0), aborted |-> AbortedOf(r)]

\* the test without the aborted flag
AsksToContinue_AnyNonZero(r) == r.exitCode # 0

\* result.exitCode !== 0 && !result.aborted
AsksToContinue(r) == r.exitCode # 0 /\ ~AbortedOf(r)

\* a loop that stays on its element
Advance_Stay(i) == i

\* the step of a for ... of loop to the next element
Advance(i) == i + 1

\* the end of the inner loop: the one tool_result of the sequence is pushed
\* and the outer loop goes on
FinishSequence ==
  /\ results' = Append(results,
                  ToolResult(toolCalls[tc].id, StringifySequence(sequenceResults)))
  /\ tc' = Advance(tc)
  /\ pc' = "loop"
  /\ UNCHANGED <<toolCalls, ci, sequenceResults>>

\* the code of handleToolCalls after "result = await this.execute...": the
\* result is pushed and, for a failure, the operator is asked to continue
Deliver(r, tr) ==
  /\ trace' = tr \o <<Event("result", Inst, r.stderr, AbortedOf(r), r.exitCode, <<>>)>>
                 \o (IF AsksToContinue(r)
                     THEN <<Event("continueAsk", Inst, <<>>, FALSE, 0, <<>>)>>
                     ELSE <<>>)
  /\ IF ci = 0
     THEN /\ results' = Append(results, ToolResult(toolCalls[tc].id, ResultContent(r)))
          /\ UNCHANGED sequenceResults
     ELSE /\ sequenceResults' = Append(sequenceResults, ResultEntry(CurrentRequest, r))
          /\ UNCHANGED results
  /\ IF AsksToContinue(r)
     THEN /\ pc' = "continue"
          /\ UNCHANGED <<tc, ci>>
     ELSE IF ci = 0
     THEN /\ pc' = "loop"
          /\ tc' = Advance(tc)
          /\ UNCHANGED ci
     ELSE /\ pc' = "seqloop"
          /\ ci' = Advance(ci)
          /\ UNCHANGED tc
  /\ UNCHANGED toolCalls

(***************************************************************************)
(* Initial state: the objects as their constructors leave them             *)
(***************************************************************************)
Init ==
  /\ isConnected = FALSE
  /\ connection = 0
  /\ channel = "none"
  /\ fullCommand = <<>>
  /\ aborted = FALSE
  /\ keyCapture = FALSE
  /\ sudoPassword = NULL
  /\ pc = "prompt"
  /\ toolCalls = <<>>
  /\ tc = 0
  /\ ci = 0
  /\ results = <<>>
  /\ sequenceResults = <<>>
  /\ maxContextTokens = 100000
  /\ messages = <<>>
  /\ communicationLog = <<>>
  /\ commandLog = <<>>
  /\ trace = <<>>
  /\ turn = 0
  /\ callsUsed = 0
  /\ cmdsUsed = 0
  /\ inputs = 0
  /\ faults = 0
  /\ stdout = <<>>
  /\ stderr = <<>>
  /\ graceTimers = {}
  /\ execTimers = {}
  /\ closingStreams = {}
  /\ transports = <<>>
  /\ many = NoMany
  /\ route = NoRoute
  /\ appended = NoneAppended

(***************************************************************************)
(* The REPL: /connect, /clear and a message for the planner                *)
(***************************************************************************)
\* connectToServer: the connect, the test command and the sudo prompt
ConnectToServer(ok, sudoPass) ==
  /\ UNCHANGED apiVars
  /\ UNCHANGED streamVars
  /\ pc = "prompt"
  /\ inputs < MaxInputs
  /\ inputs' = inputs + 1
  /\ Fault(~ok)
  /\ connection' = connection + 1
  /\ IF ok
     THEN /\ isConnected' = TRUE
          /\ sudoPassword' = IF sudoPass # <<>> THEN sudoPass ELSE NULL
          /\ trace' = trace \o
               <<Event("execute", NoInst, TestCommand, FALSE, 0, <<>>),
                 Event("exec", NoInst, TestCommand, FALSE, 0, <<>>)>>
     ELSE /\ isConnected' = FALSE
          /\ UNCHANGED <<sudoPassword, trace>>
  /\ UNCHANGED <<channel, fullCommand, aborted, keyCapture, pc, loopVars,
                 storeVars, turn, callsUsed, cmdsUsed>>

\* handleCommand, case 'clear'
ClearCommand ==
  /\ UNCHANGED apiVars
  /\ UNCHANGED streamVars
  /\ pc = "prompt"
  /\ SetStore(clear(Store))
  /\ UNCHANGED <<sshVars, keyCapture, sudoPassword, pc, loopVars, trace,
                 boundVars>>

\* processMessage up to the call of the planner (LLMClient.chat)
ProcessMessage(message) ==
  /\ UNCHANGED apiVars
  /\ UNCHANGED streamVars
  /\ pc = "prompt"
  /\ inputs < MaxInputs
  /\ inputs' = inputs + 1
  /\ IF ~isConnected
     THEN UNCHANGED <<pc, storeVars, trace, callsUsed>>
     ELSE /\ SetStore(addMessage(Store, maxContextTokens, "user", "string", message))
          /\ pc' = "chat"
          /\ UNCHANGED callsUsed
          /\ trace' = Append(trace, Event("message", NoInst, message, FALSE, 0, <<>>))
  /\ UNCHANGED <<sshVars, keyCapture, sudoPassword, loopVars, turn, cmdsUsed,
                 faults>>

\* the planner answers chat or continueWithToolResults; with tool calls
\* handleToolCalls starts, without them processMessage returns
PlannerResponds(text, batch) ==
  /\ UNCHANGED apiVars
  /\ UNCHANGED streamVars
  /\ pc = "chat"
  /\ batch # <<>> => text # <<>>
  /\ callsUsed + Len(batch) <= MaxCalls
  /\ cmdsUsed + BatchCmdCount(batch) <= MaxCmds
  /\ LET blocks == ToolBlocks(batch, turn + 1)
     IN  /\ SetStore(addMessage(Store, maxContextTokens, "assistant", "blocks",
                                TextBlocks(text) \o blocks))
         /\ IF blocks # <<>>
            THEN /\ toolCalls' = blocks
                 /\ results' = <<>>
                 /\ tc' = 1
                 /\ ci' = 0
                 /\ pc' = "loop"
                 /\ turn' = turn + 1
                 /\ callsUsed' = callsUsed + Len(batch)
                 /\ cmdsUsed' = cmdsUsed + BatchCmdCount(batch)
                 /\ UNCHANGED sequenceResults
            ELSE /\ pc' = "prompt"
                 /\ UNCHANGED <<loopVars, turn, callsUsed, cmdsUsed>>
  /\ UNCHANGED <<sshVars, keyCapture, sudoPassword, trace, inputs, faults>>

\* the planner call throws: processMessage prints the error and returns
PlannerFails ==
  /\ UNCHANGED apiVars
  /\ UNCHANGED streamVars
  /\ pc = "chat"
  /\ pc' = "prompt"
  /\ trace' = Append(trace, Event("error", NoInst, <<"LLM API error">>, FALSE, 0, <<>>))
  /\ Fault(TRUE)
  /\ UNCHANGED <<sshVars, keyCapture, sudoPassword, loopVars, storeVars, turn,
                 callsUsed, cmdsUsed, inputs>>

(***************************************************************************)
(* handleToolCalls                                                         *)
(***************************************************************************)
\* the head of the outer loop
HandleNext ==
  /\ UNCHANGED apiVars
  /\ UNCHANGED streamVars
  /\ pc = "loop"
  /\ IF tc > Len(toolCalls)
     THEN /\ pc' = "return"
          /\ UNCHANGED <<loopVars, trace>>
     ELSE IF toolCalls[tc].name = "execute_command"
     THEN /\ ci' = 0
          /\ pc' = "confirm"
          /\ trace' = Append(trace, Event("shown", <<turn, tc, 0>>,
                                          toolCalls[tc].input.command, FALSE, 0, <<>>))
          /\ UNCHANGED <<toolCalls, tc, results, sequenceResults>>
     ELSE IF toolCalls[tc].name = "execute_command_sequence"
     THEN /\ sequenceResults' = <<>>
          /\ ci' = 1
          /\ pc' = "seqloop"
          /\ UNCHANGED <<toolCalls, tc, results, trace>>
     ELSE /\ tc' = Advance(tc)
          /\ UNCHANGED <<pc, toolCalls, ci, results, sequenceResults, trace>>
  /\ UNCHANGED <<sshVars, keyCapture, sudoPassword, storeVars, boundVars>>

\* the head of the inner loop
SequenceNext ==
  /\ UNCHANGED apiVars
  /\ UNCHANGED streamVars
  /\ pc = "seqloop"
  /\ IF ci > Len(toolCalls[tc].input.commands)
     THEN /\ FinishSequence
          /\ UNCHANGED trace
     ELSE /\ pc' = "confirm"
          /\ trace' = Append(trace, Event("shown", Inst, CurrentRequest.command,
                                          FALSE, 0, <<>>))
          /\ UNCHANGED loopVars
  /\ UNCHANGED <<sshVars, keyCapture, sudoPassword, storeVars, boundVars>>

\* the operator answers 'Execute this command?'; on yes executeCommand or
\* executeStreamingCommand runs up to the point where it waits for the host
\* a call whose promise is not awaited: the loop goes on at once
Awaiting_NotAwaited(streaming) == "loop"

\* result = await this.executeStreamingCommand(...) / await
\* this.executeCommand(...): handleToolCalls stays there until the promise
\* settles
Awaiting(streaming) == IF streaming THEN "stream" ELSE "exec"

Confirm(answer) ==
  /\ UNCHANGED apiVars
  /\ UNCHANGED streamVars
  /\ pc = "confirm"
  /\ LET req == CurrentRequest
         streaming == shouldStream(req)
         options == SudoOptions(req.requires_sudo, sudoPassword)
         line == FullCommand(req.command, options)
         asked == Append(trace, Event("confirm", Inst, <<>>, Affirmative(answer), 0,
                                      sudoPassword))
         called == Append(asked, Event(IF streaming THEN "executeStreaming" ELSE "execute",
                                       Inst, req.command, options.sudo, 0,
                                       options.sudoPassword))
     IN  IF ~confirm(answer)
         THEN /\ trace' = asked
              /\ IF ci = 0
                 THEN /\ results' = Append(results,
                                       ToolResult(toolCalls[tc].id, DeclinedText))
                      /\ tc' = Advance(tc)
                      /\ pc' = "loop"
                      /\ UNCHANGED <<toolCalls, ci, sequenceResults>>
                 ELSE /\ sequenceResults' = Append(sequenceResults, SkippedEntry(req))
                      /\ ci' = Advance(ci)
                      /\ pc' = "seqloop"
                      /\ UNCHANGED <<toolCalls, tc, results>>
              /\ UNCHANGED <<channel, fullCommand, aborted, keyCapture>>
         ELSE IF options.missing
         THEN /\ Deliver(LocalResult(SudoNotConfiguredText, streaming), asked)
              /\ UNCHANGED <<channel, fullCommand, aborted, keyCapture>>
         ELSE IF ~isConnected
         THEN /\ Deliver(LocalResult(NotConnectedText, streaming),
                         Append(called, Rejected(NotConnectedText)))
              /\ UNCHANGED <<channel, fullCommand, aborted, keyCapture>>
         ELSE /\ trace' = Append(called, Event("exec", Inst, line, options.sudo,
                                               0, options.sudoPassword))
              /\ channel' = "pending"
              /\ fullCommand' = line
              /\ aborted' = FALSE
              /\ keyCapture' = (keyCapture \/ streaming)
              /\ pc' = Awaiting(streaming)
              /\ UNCHANGED loopVars
  /\ UNCHANGED <<isConnected, connection, sudoPassword, storeVars, boundVars>>

\* a close handler that reports the exit code of the remote process as is
CloseResult_RemoteCode(r, streaming, wasAborted) ==
  IF streaming
  THEN [stdout |-> Trim(r.stdout), stderr |-> Trim(r.stderr),
        exitCode |-> r.code, aborted |-> wasAborted]
  ELSE [stdout |-> Trim(r.stdout), stderr |-> Trim(r.stderr), exitCode |-> r.code]

\* the result of SSHManager.execute / executeStreaming when the stream closes
CloseResult(r, streaming, wasAborted) ==
  IF streaming
  THEN [stdout |-> Trim(r.stdout), stderr |-> Trim(r.stderr),
        exitCode |-> IF wasAborted THEN 130 ELSE r.code, aborted |-> wasAborted]
  ELSE [stdout |-> Trim(r.stdout), stderr |-> Trim(r.stderr), exitCode |-> r.code]

\* the command text executeCommand / executeStreamingCommand hand to
\* addCommandOutput
LoggedCommand(req, line) == req.command

\* executeCommand / executeStreamingCommand after the await: the result is
\* logged and returned to handleToolCalls
LogAndDeliver(r, code) ==
  /\ SetStore(addCommandOutput(Store, maxContextTokens,
                               LoggedCommand(CurrentRequest, fullCommand),
                               CombinedOutput(r), r.exitCode))
  /\ Deliver(r, trace \o
                  <<Event("close", Inst, <<>>, aborted, code, <<>>),
                    Event("logged", Inst,
                          LoggedCommand(CurrentRequest, fullCommand),
                          FALSE, r.exitCode, <<>>)>>)

\* the callback of connection.exec in execute: an error rejects, which
\* executeCommand catches; otherwise the stream is open and the timer armed
ExecCallback(err) ==
  /\ UNCHANGED apiVars
  /\ UNCHANGED <<stdout, stderr, graceTimers, closingStreams>>
  /\ pc = "exec"
  /\ channel = "pending"
  /\ Fault(err)
  /\ IF err
     THEN /\ channel' = "none"
          /\ UNCHANGED execTimers
          /\ Deliver(LocalResult(ChannelErrorText, FALSE),
                      Append(trace, Rejected(ChannelErrorText)))
     ELSE /\ channel' = "open"
          /\ execTimers' = execTimers \cup {Inst}
          /\ UNCHANGED <<pc, loopVars, trace>>
  /\ UNCHANGED <<isConnected, connection, fullCommand, aborted, keyCapture,
                 sudoPassword, storeVars, turn, callsUsed,
                 cmdsUsed, inputs>>

\* a timeoutId shared by the calls of the session: clearing it disarms the
\* timer of whichever call is running
ClearTimeout_Shared(timers, inst) == {}

\* clearTimeout(timeoutId): timeoutId is a local of the promise executor of
\* the call; clearing a timer that has fired does nothing
ClearTimeout(timers, inst) == timers \ {inst}

\* stream 'close' in execute
ExecClose(r) ==
  /\ UNCHANGED apiVars
  /\ UNCHANGED <<stdout, stderr, graceTimers, closingStreams>>
  /\ execTimers' = ClearTimeout(execTimers, Inst)
  /\ pc = "exec"
  /\ channel = "open"
  /\ channel' = "none"
  /\ LogAndDeliver(CloseResult(r, FALSE, FALSE), r.code)
  /\ UNCHANGED <<isConnected, connection, fullCommand, aborted, keyCapture,
                 sudoPassword, boundVars>>

\* the timer of execute fires: the stream is closed and the call rejects
ExecTimeout ==
  /\ UNCHANGED apiVars
  /\ UNCHANGED <<stdout, stderr, graceTimers>>
  /\ pc = "exec"
  /\ channel = "open"
  /\ Inst \in execTimers
  /\ execTimers' = execTimers \ {Inst}
  /\ closingStreams' = closingStreams \cup {Inst}
  /\ channel' = "none"
  /\ Fault(TRUE)
  /\ Deliver(LocalResult(TimeoutText, FALSE), Append(trace, Rejected(TimeoutText)))
  /\ UNCHANGED <<isConnected, connection, fullCommand, aborted, keyCapture,
                 sudoPassword, storeVars, turn, callsUsed,
                 cmdsUsed, inputs>>

\* the callback of connection.exec in executeStreaming; on an error
\* executeStreamingCommand lands in its catch, past the cleanup() call
StreamCallback(err) ==
  /\ UNCHANGED apiVars
  /\ UNCHANGED streamVars
  /\ pc = "stream"
  /\ channel = "pending"
  /\ Fault(err)
  /\ IF err
     THEN /\ channel' = "none"
          /\ Deliver(LocalResult(ChannelErrorText, TRUE),
                      Append(trace, Rejected(ChannelErrorText)))
     ELSE /\ channel' = "open"
          /\ UNCHANGED <<pc, loopVars, trace>>
  /\ UNCHANGED <<isConnected, connection, fullCommand, aborted, keyCapture,
                 sudoPassword, storeVars, turn, callsUsed,
                 cmdsUsed, inputs>>

\* the operator presses q: the key listener removes itself and calls abort()
StreamAbort ==
  /\ UNCHANGED apiVars
  /\ UNCHANGED <<stdout, stderr>>
  /\ pc = "stream"
  /\ keyCapture
  /\ keyCapture' = FALSE
  /\ aborted' = TRUE
  /\ graceTimers' = IF channel = "open" THEN graceTimers \cup {Inst} ELSE graceTimers
  /\ UNCHANGED <<execTimers, closingStreams>>
  /\ trace' = Append(trace, Event("abort", Inst, <<>>, channel = "open", 0, <<>>))
  /\ UNCHANGED <<isConnected, connection, channel, fullCommand, sudoPassword,
                 pc, loopVars, storeVars, boundVars>>

\* the chunks of the call in flight handed to onData / onError so far
ChunksDelivered ==
  Len(SelectSeq(trace, LAMBDA e : e.ev = "data" /\ e.inst = Inst))

\* stream 'data' / stderr 'data' in executeStreaming: the chunk is added to
\* the output of the call and handed to onData / onError
StreamData(chunk) ==
  /\ pc = "stream"
  /\ channel = "open"
  /\ ChunksDelivered < MaxChunks
  /\ IF chunk.fd = "stdout"
     THEN stdout' = stdout \o chunk.text /\ UNCHANGED stderr
     ELSE stderr' = stderr \o chunk.text /\ UNCHANGED stdout
  /\ UNCHANGED <<graceTimers, execTimers, closingStreams>>
  /\ trace' = Append(trace, Event("data", Inst, chunk.text, aborted, 0, <<>>))
  /\ UNCHANGED <<sshVars, keyCapture, sudoPassword, pc, loopVars, storeVars,
                 boundVars, apiVars>>

\* stream 'close' in executeStreaming, on its own or after the interrupt
StreamClose(r) ==
  /\ UNCHANGED apiVars
  /\ pc = "stream"
  /\ channel = "open"
  /\ channel' = "none"
  /\ keyCapture' = FALSE
  /\ stdout' = <<>>
  /\ stderr' = <<>>
  /\ UNCHANGED <<graceTimers, execTimers, closingStreams>>
  /\ LogAndDeliver(CloseResult([stdout |-> stdout \o r.stdout,
                                stderr |-> stderr \o r.stderr,
                                code |-> r.code], TRUE, aborted), r.code)
  /\ UNCHANGED <<isConnected, connection, fullCommand, aborted, sudoPassword,
                 boundVars>>

\* the timer of abort() fires, 500 ms after the interrupt: if (stream)
\* stream.close().  stream is the local of the call that was aborted and
\* stays set once the callback of exec has set it; the close event of a
\* channel that is still open is StreamClose
GraceTimeout(inst) ==
  /\ inst \in graceTimers
  /\ graceTimers' = graceTimers \ {inst}
  /\ trace' = Append(trace, Event("forceClose", inst, <<>>,
                                  pc = "stream" /\ channel = "open" /\ Inst = inst,
                                  0, <<>>))
  /\ UNCHANGED <<sshVars, stdout, stderr, execTimers, closingStreams, keyCapture,
                 sudoPassword, pc, loopVars, storeVars, boundVars, apiVars>>

\* the operator answers 'Continue with next / remaining commands?'
ContinueAnswer(answer) ==
  /\ UNCHANGED apiVars
  /\ UNCHANGED streamVars
  /\ pc = "continue"
  /\ trace' = Append(trace, Event("continueAnswer", Inst, <<>>, Affirmative(answer),
                                  0, <<>>))
  /\ IF confirm(answer)
     THEN IF ci = 0
          THEN /\ pc' = "loop"
               /\ tc' = Advance(tc)
               /\ UNCHANGED <<toolCalls, ci, results, sequenceResults>>
          ELSE /\ pc' = "seqloop"
               /\ ci' = Advance(ci)
               /\ UNCHANGED <<toolCalls, tc, results, sequenceResults>>
     ELSE IF ci = 0
          THEN /\ results' = Append(results,
                                ToolResult(toolCalls[tc].id, AbortedText))
               /\ pc' = "return"
               /\ UNCHANGED <<toolCalls, tc, ci, sequenceResults>>
          ELSE FinishSequence
  /\ UNCHANGED <<sshVars, keyCapture, sudoPassword, storeVars, boundVars>>

\* handleToolCalls returns; processMessage hands a non-empty result list to
\* continueWithToolResults and leaves its loop on an empty one
Return ==
  /\ UNCHANGED apiVars
  /\ UNCHANGED streamVars
  /\ pc = "return"
  /\ IF Len(results) > 0
     THEN /\ SetStore(addMessage(Store, maxContextTokens, "user", "tool_results",
                                 results))
          /\ pc' = "chat"
     ELSE /\ pc' = "prompt"
          /\ UNCHANGED storeVars
  /\ UNCHANGED <<sshVars, keyCapture, sudoPassword, loopVars, trace, boundVars>>

(***************************************************************************)
(* The transport closes on the remote side ('close' of the connection)     *)
(***************************************************************************)
\* The event is taken while the program waits for the operator: the program
\* reads isConnected only after a prompt has been answered.
RemoteClose ==
  /\ UNCHANGED apiVars
  /\ UNCHANGED streamVars
  /\ isConnected
  /\ pc \in {"prompt", "confirm"}
  /\ Fault(TRUE)
  /\ isConnected' = FALSE
  /\ UNCHANGED <<connection, channel, fullCommand, aborted, keyCapture,
                 sudoPassword, pc, loopVars, storeVars, trace, turn, callsUsed,
                 cmdsUsed, inputs>>

RECURSIVE BatchesWithin(_, _)
\* the batches of at most nCalls tool calls requesting at most nCmds commands
BatchesWithin(nCalls, nCmds) ==
  IF nCalls = 0 THEN {<<>>}
  ELSE {<<>>} \cup
       UNION {{<<shape>> \o rest :
                 rest \in BatchesWithin(nCalls - 1, nCmds - CmdCount(shape))} :
              shape \in {x \in ToolShapes : CmdCount(x) <= nCmds}}

Next ==
  \/ \E ok \in BOOLEAN, sudoPass \in Credentials \cup {<<>>} :
       ConnectToServer(ok, sudoPass)
  \/ ClearCommand
  \/ \E message \in UserMessages : ProcessMessage(message)
  \/ \E text \in PlannerTexts,
        batch \in BatchesWithin(MaxCalls - callsUsed, MaxCmds - cmdsUsed) :
       PlannerResponds(text, batch)
  \/ PlannerFails
  \/ HandleNext
  \/ SequenceNext
  \/ \E answer \in Answers : Confirm(answer)
  \/ \E err \in BOOLEAN : ExecCallback(err)
  \/ \E r \in RemoteResults(fullCommand) : ExecClose(r)
  \/ ExecTimeout
  \/ \E err \in BOOLEAN : StreamCallback(err)
  \/ StreamAbort
  \/ \E chunk \in Chunks : StreamData(chunk)
  \/ \E r \in RemoteResults(fullCommand) : StreamClose(r)
  \/ \E answer \in Answers : ContinueAnswer(answer)
  \/ Return
  \/ RemoteClose

Spec == Init /\ [][Next]_vars

\* Spec leaves the timers of abort() running: the close they bring about on
\* an open channel is StreamClose.  Here they also fire, at any time after
\* the abort, and the call of stream.close() they make is recorded.
TimerNext == Next \/ \E inst \in graceTimers : GraceTimeout(inst)

TimerSpec == Init /\ [][TimerNext]_vars

\* the 'close' event of a stream the timer of execute has closed, at any
\* time after the timeout: clearTimeout(timeoutId) for a timer that has
\* fired, and resolve() of a promise that is rejected already.  stream,
\* stdout, stderr and timeoutId are locals of the call that timed out.  The
\* event records whether it found a later command with its channel open.
LateClose(inst) ==
  /\ inst \in closingStreams
  /\ closingStreams' = closingStreams \ {inst}
  /\ execTimers' = ClearTimeout(execTimers, inst)
  /\ trace' = Append(trace, Event("lateClose", inst, <<>>,
                                  pc = "exec" /\ channel = "open" /\ Inst # inst,
                                  0, <<>>))
  /\ UNCHANGED <<sshVars, stdout, stderr, graceTimers, keyCapture, sudoPassword,
                 pc, loopVars, storeVars, boundVars, apiVars>>

RaceNext == Next \/ \E inst \in closingStreams : LateClose(inst)

RaceSpec == Init /\ [][RaceNext]_vars

(***************************************************************************)
(* SSHManager as its callers see it: connect, disconnect, executeMany and  *)
(* the synchronous part of executeStreaming, called one at a time by a     *)
(* caller that awaits each call, with the events of the Clients arriving   *)
(* in between.  One iteration of executeMany is one step: execute reads    *)
(* isConnected once, when it is called.                                    *)
(***************************************************************************)
otherVars ==
  <<channel, fullCommand, aborted, keyCapture, sudoPassword, pc, loopVars,
    storeVars, boundVars, streamVars, appended, route>>

\* a connect is waiting for 'ready' or 'error'
Connecting == \E k \in 1..Len(transports) : transports[k] = "connecting"

\* the Client the session holds is connected
TransportUp == connection # 0 /\ transports[connection] = "ready"

\* what a call of a caller of the session finds: the Clients created so
\* far, the Client held, and 1 if that Client is connected, else 0
SessionInst == <<Len(transports), connection, IF TransportUp THEN 1 ELSE 0>>

SessionCalls ==
  Len(SelectSeq(trace, LAMBDA e : e.ev \in {"executeMany", "executeStreaming"}))

\* the caller is free to make its next call
CallerIdle == ~Connecting /\ many.state # "running"

\* connect: a new Client replaces this.connection
connect ==
  /\ CallerIdle
  /\ Len(transports) < MaxConnects
  /\ transports' = Append(transports, "connecting")
  /\ connection' = Len(transports) + 1
  /\ trace' = Append(trace, Event("connect", <<Len(transports) + 1, 0, 0>>, <<>>,
                                  isConnected, 0, <<>>))
  /\ UNCHANGED <<isConnected, many, otherVars>>

\* 'ready' of a Client
OnReady(k) ==
  /\ transports[k] = "connecting"
  /\ transports' = [transports EXCEPT ![k] = "ready"]
  /\ isConnected' = TRUE
  /\ UNCHANGED <<connection, many, trace, otherVars>>

\* the handlers that leave the flag as it is
FlagAfterClose_Kept(flag) == flag

\* this.isConnected after the 'error' and the 'close' handler
FlagAfterClose(flag) == FALSE

\* 'error' of a Client: reject(err) settles the promise of connect unless
\* 'ready' has resolved it before
OnError(k) ==
  /\ transports[k] \in {"connecting", "ready"}
  /\ transports' = [transports EXCEPT ![k] = "failed"]
  /\ isConnected' = FlagAfterClose(isConnected)
  /\ trace' = IF transports[k] = "connecting"
               THEN Append(trace, Event("connectRejected", <<k, 0, 0>>, <<>>,
                                        isConnected', 0, <<>>))
               ELSE trace
  /\ UNCHANGED <<connection, many, otherVars>>

\* 'close' of a Client: after an error, after end() or closed by the remote
OnClose(k) ==
  /\ transports[k] \in {"ready", "failed", "ending"}
  /\ transports' = [transports EXCEPT ![k] = "closed"]
  /\ isConnected' = FlagAfterClose(isConnected)
  /\ UNCHANGED <<connection, many, trace, otherVars>>

\* disconnect: the Client held is ended and given up
disconnect ==
  /\ CallerIdle
  /\ connection # 0
  /\ transports' = [transports EXCEPT ![connection] =
                      IF @ = "ready" THEN "ending" ELSE @]
  /\ connection' = 0
  /\ isConnected' = FALSE
  /\ UNCHANGED <<many, trace, otherVars>>

\* the options a caller passes
CallerOptions(sudo) ==
  [sudo |-> sudo,
   sudoPassword |-> IF sudo THEN CHOOSE c \in Credentials : TRUE ELSE <<>>]

\* the synchronous part of executeStreaming: the guard, the wrapping and the
\* hand-over to connection.exec
executeStreaming(command, sudo) ==
  /\ CallerIdle
  /\ SessionCalls < MaxSessionCalls
  /\ LET options == CallerOptions(sudo)
         called == Event("executeStreaming", SessionInst, command, sudo, 0,
                         options.sudoPassword)
     IN  trace' = trace \o
           (IF ~isConnected
            THEN <<called, Event("throw", NoInst, NotConnectedText, FALSE, 0, <<>>)>>
            ELSE <<called, Event("exec", NoInst, FullCommand(command, options),
                                 sudo, 0, options.sudoPassword)>>)
  /\ UNCHANGED <<isConnected, connection, transports, many, otherVars>>

\* executeMany up to its loop
executeMany(commands, sudo) ==
  /\ CallerIdle
  /\ SessionCalls < MaxSessionCalls
  /\ many' = [state |-> IF commands = <<>> THEN "returned" ELSE "running",
              commands |-> commands, sudo |-> sudo,
              sudoPassword |-> CallerOptions(sudo).sudoPassword,
              i |-> 1, results |-> <<>>]
  /\ trace' = Append(trace, Event("executeMany", NoInst, <<>>, sudo,
                                  Len(commands), <<>>))
  /\ UNCHANGED <<isConnected, connection, transports, otherVars>>

\* a loop that never breaks
ManyStops_Never(result) == FALSE

\* if (result.exitCode !== 0) break
ManyStops(result) == result.exitCode # 0

\* what one execute call of the loop comes to: the stream closes with r, or
\* the call rejects (channel error, timeout)
ExecuteOutcomes(line) ==
  {[kind |-> "close", r |-> r] : r \in RemoteResults(line)}
  \cup {[kind |-> "reject", r |-> [stdout |-> <<>>, stderr |-> text, code |-> 1]] :
          text \in {ChannelErrorText, TimeoutText}}

\* the text the iteration in turn hands to connection.exec
ManyLine ==
  IF many.state = "running"
  THEN FullCommand(many.commands[many.i],
                   [sudo |-> many.sudo, sudoPassword |-> many.sudoPassword])
  ELSE <<>>

\* one iteration of the loop of executeMany: await this.execute(command,
\* options), push, test
executeManyStep(outcome) ==
  /\ many.state = "running"
  /\ LET command == many.commands[many.i]
         called == Event("execute", SessionInst, command, many.sudo, 0,
                         many.sudoPassword)
         handed == Event("exec", NoInst, ManyLine, many.sudo, 0,
                         many.sudoPassword)
         result == CloseResult(outcome.r, FALSE, FALSE)
     IN  IF ~isConnected
         THEN /\ trace' = trace \o
                   <<called, Event("throw", NoInst, NotConnectedText, FALSE, 0, <<>>)>>
              /\ many' = [many EXCEPT !.state = "rejected"]
         ELSE IF outcome.kind = "reject"
         THEN /\ trace' = trace \o
                   <<called, handed,
                     Event("reject", NoInst, outcome.r.stderr, FALSE, 0, <<>>)>>
              /\ many' = [many EXCEPT !.state = "rejected"]
         ELSE /\ trace' = trace \o
                   <<called, handed,
                     Event("resolve", NoInst, result.stderr, FALSE,
                           result.exitCode, <<>>)>>
              /\ many' = [many EXCEPT
                   !.results = Append(@, [command |-> command,
                                          stdout |-> result.stdout,
                                          stderr |-> result.stderr,
                                          exitCode |-> result.exitCode]),
                   !.i = Advance(@),
                   !.state = IF ManyStops(result) \/ many.i = Len(many.commands)
                             THEN "returned" ELSE "running"]
  /\ UNCHANGED <<isConnected, connection, transports, otherVars>>

\* the command texts a caller of executeMany passes
ManyCommands == {<<"l", "s">>, <<"i", "d">>}

SessionNext ==
  \/ connect
  \/ \E k \in 1..Len(transports) : OnReady(k)
  \/ \E k \in 1..Len(transports) : OnError(k)
  \/ \E k \in 1..Len(transports) : OnClose(k)
  \/ disconnect
  \/ \E command \in ManyCommands, sudo \in BOOLEAN : executeStreaming(command, sudo)
  \/ \E commands \in SeqsUpTo(ManyCommands, MaxManyLen), sudo \in BOOLEAN :
       executeMany(commands, sudo)
  \/ \E outcome \in ExecuteOutcomes(ManyLine) : executeManyStep(outcome)

SessionSpec == Init /\ [][SessionNext]_vars

(***************************************************************************)
(* The choice between execute and executeStreaming in handleToolCalls, as  *)
(* a function of the request                                               *)
(***************************************************************************)
RouteTexts ==
  { <<"l", "s">>,
    <<"t", "o", "p">>,
    <<" ", "t", "o", "p", " ">>,
    <<"t", "o", "p", "i", "c">>,
    <<"h", "t", "o", "p">>,
    <<"t", "a", "i", "l", " ", "-", "f", " ", "x">>,
    <<"t", "a", "i", "l", " ", "x">>,
    <<"w", "a", "t", "c", "h", " ", "l", "s">>,
    <<"p", "m", "2", " ", "l", "o", "g", "s">>,
    <<"P", "M", "2", " ", "L", "O", "G">>,
    <<"j", "o", "u", "r", "n", "a", "l", "c", "t", "l", " ", "-", "u", " ", "a", " ", "-", "f">>,
    <<"v", "i">>,
    <<"v", "i", "e", "w">>,
    <<"p", "i", "n", "g", " ", "h">>,
    <<"i", "o", "s", "t", "a", "t", " ", "1">>,
    <<"i", "o", "s", "t", "a", "t", " ", "x">> }

RouteRequests ==
  [command : RouteTexts, explanation : {<<"why">>},
   requires_sudo : {"true", "undefined"},
   is_streaming : {"true", "false", "undefined"}]

\* the planner sends a request
RouteRequest(req) ==
  /\ route = NoRoute
  /\ route' = [request |-> req, target |-> "none"]
  /\ UNCHANGED <<sshVars, streamVars, keyCapture, sudoPassword, pc, loopVars,
                 storeVars, trace, boundVars, transports, many, appended>>

\* if (shouldStream) executeStreamingCommand(...) else executeCommand(...)
RouteCommand ==
  /\ route # NoRoute
  /\ route.target = "none"
  /\ route' = [route EXCEPT !.target = IF shouldStream(route.request)
                                       THEN "executeStreaming" ELSE "execute"]
  /\ UNCHANGED <<sshVars, streamVars, keyCapture, sudoPassword, pc, loopVars,
                 storeVars, trace, boundVars, transports, many, appended>>

RouteNext == (\E req \in RouteRequests : RouteRequest(req)) \/ RouteCommand

RouteSpec == Init /\ [][RouteNext]_vars

(***************************************************************************)
(* The elevation wrapping on its own: the operator's answer to the sudo    *)
(* prompt of connectToServer is kept, and execute builds the command line  *)
(* of an elevated command from it.                                         *)
(***************************************************************************)
\* characters a credential is made of here: the quote, the backslash, a
\* command separator, a blank and a letter
CredentialChars == {"'", "\\", ";", " ", "a"}

WrapCredentials ==
  {p \in SeqsUpTo(CredentialChars, MaxCredLen) : p # <<>>}

WrapCommands == {<<"i", "d">>, <<"l", "s", " ", "'", "x", "'">>}

notWrapVars ==
  <<isConnected, connection, channel, aborted, keyCapture, pc, loopVars,
    storeVars, trace, boundVars, streamVars, apiVars>>

\* this.sudoPassword = sudoPass || null, for a non-empty answer
KeepCredential(sudoPass) ==
  /\ sudoPassword = NULL
  /\ sudoPassword' = sudoPass
  /\ UNCHANGED <<fullCommand, notWrapVars>>

\* fullCommand of an execute call with { sudo: true, sudoPassword }
WrapCommand(command) ==
  /\ sudoPassword # NULL
  /\ fullCommand = <<>>
  /\ fullCommand' = FullCommand(command, SudoOptions("true", sudoPassword))
  /\ UNCHANGED <<sudoPassword, notWrapVars>>

WrapNext ==
  \/ \E sudoPass \in WrapCredentials : KeepCredential(sudoPass)
  \/ \E command \in WrapCommands : WrapCommand(command)

WrapSpec == Init /\ [][WrapNext]_vars

(***************************************************************************)
(* The ContextManager on its own: a caller that adds messages and command  *)
(* outputs and clears, on a manager constructed with a small               *)
(* maxContextTokens so that checkAndCompact has something to do.           *)
(* appended records what was pushed to each log since the last clear().    *)
(***************************************************************************)
\* new ContextManager({ maxContextTokens: SmallContext })
StoreWith(maxTokens) ==
  /\ maxContextTokens = maxTokens
  /\ messages = <<>>
  /\ communicationLog = <<>>
  /\ commandLog = <<>>
  /\ appended = NoneAppended
  /\ isConnected = FALSE
  /\ connection = 0
  /\ channel = "none"
  /\ fullCommand = <<>>
  /\ aborted = FALSE
  /\ keyCapture = FALSE
  /\ sudoPassword = NULL
  /\ pc = "prompt"
  /\ toolCalls = <<>>
  /\ tc = 0
  /\ ci = 0
  /\ results = <<>>
  /\ sequenceResults = <<>>
  /\ trace = <<>>
  /\ turn = 0
  /\ callsUsed = 0
  /\ cmdsUsed = 0
  /\ inputs = 0
  /\ faults = 0
  /\ stdout = <<>>
  /\ stderr = <<>>
  /\ graceTimers = {}
  /\ execTimers = {}
  /\ closingStreams = {}
  /\ transports = <<>>
  /\ many = NoMany
  /\ route = NoRoute

StoreInit == StoreWith(SmallContext)

notStoreVars ==
  <<isConnected, connection, channel, fullCommand, aborted, keyCapture,
    sudoPassword, pc, toolCalls, tc, ci, results, sequenceResults, trace,
    turn, callsUsed, cmdsUsed, inputs, faults, stdout, stderr, graceTimers,
    execTimers, closingStreams, transports,
    many, route>>

\* the elements a push added at the end of a list
Pushed(before, after) == SubSeq(after, Len(before) + 1, Len(after))

KlausEntries ==
  Len(SelectSeq(appended.communicationLog,
                LAMBDA e : e.role = <<"K", "l", "a", "u", "s">>))

\* the messages that left no entry in the communication log
SilentEntries == Len(appended.messages) - Len(appended.communicationLog)

\* a user message, an assistant text, an assistant content of tool_use blocks
\* only, and a user message of tool results
StoreMessages ==
  << [role |-> "user", kind |-> "string", content |-> <<"a">>],
    [role |-> "assistant", kind |-> "string", content |-> <<"b">>],
    [role |-> "assistant", kind |-> "blocks",
     content |-> <<[type |-> "tool_use", id |-> ToolUseId(1, 1),
                    name |-> "execute_command", input |-> <<>>]>>],
    [role |-> "user", kind |-> "tool_results",
     content |-> <<ToolResult(ToolUseId(1, 1), <<"o">>)>>] >>

AddMessage(m) ==
  LET pushed == pushMessage(Store, m.role, m.kind, m.content)
      logged == Pushed(communicationLog, pushed.communicationLog)
  IN  /\ Len(appended.communicationLog) < MaxLogged
      /\ (m.role = "assistant" /\ logged # <<>>) => KlausEntries < MaxKlaus
      /\ logged = <<>> => SilentEntries < MaxSilent
      /\ SetStore(addMessage(Store, maxContextTokens, m.role, m.kind, m.content))
      /\ appended' = [appended EXCEPT
                        !.messages = @ \o Pushed(messages, pushed.messages),
                        !.communicationLog = @ \o logged]
      /\ UNCHANGED notStoreVars

AddCommandOutput(exitCode, output) ==
  LET pushed == pushCommandOutput(Store, <<"l", "s">>, output, exitCode)
  IN  /\ Len(appended.commandLog) < MaxOutputs
      /\ SetStore(addCommandOutput(Store, maxContextTokens,
                                   <<"l", "s">>, output, exitCode))
      /\ appended' = [appended EXCEPT !.commandLog =
                        @ \o Pushed(commandLog, pushed.commandLog)]
      /\ UNCHANGED notStoreVars

Clear ==
  /\ messages # <<>> \/ commandLog # <<>>
  /\ SetStore(clear(Store))
  /\ appended' = NoneAppended
  /\ UNCHANGED notStoreVars

\* the two messages of StoreMessages that are strings
StringMessages == 1..2

StoreNext ==
  \/ \E k \in StringMessages : AddMessage(StoreMessages[k])
  \/ \E exitCode \in {0, 1} : AddCommandOutput(exitCode, <<"o">>)
  \/ Clear

StoreSpec == StoreInit /\ [][StoreNext]_vars

\* a manager with a context in which an estimate can lie between 33% and a
\* third of it, and an output long enough to take the two logs over half of
\* it when the communication log holds more than minKeep entries
LongOutput == [k \in 1..LongLen |-> "o"]

TierNext ==
  \/ \E k \in StringMessages : AddMessage(StoreMessages[k])
  \/ \E exitCode \in {0, 1} :
       AddCommandOutput(exitCode, IF exitCode = 0 THEN LongOutput ELSE <<"o">>)
  \/ Clear

TierSpec == StoreWith(TierContext) /\ [][TierNext]_vars

\* the conversation alone: every kind of message, no command output
DialogueNext ==
  \/ \E k \in DOMAIN StoreMessages : AddMessage(StoreMessages[k])
  \/ Clear

DialogueSpec == StoreInit /\ [][DialogueNext]_vars

(***************************************************************************)
(* Progress.  What the code itself makes happen: the timer armed by the    *)
(* exec callback of execute fires unless the stream closed before, and a   *)
(* stream that abort() found open is closed by it (SIGINT, then close      *)
(* after 500 ms).  Whether the transport answers a channel request and     *)
(* whether a remote process exits on its own is up to the remote side.     *)
(***************************************************************************)
\* abort() of the streaming call in flight found the stream open
Signalled ==
  \E i \in 1..Len(trace) :
    trace[i].ev = "abort" /\ trace[i].inst = Inst /\ trace[i].flag

\* the close of a stream that abort() has closed
ClosedByAbort == Signalled /\ \E r \in RemoteResults(fullCommand) : StreamClose(r)

LiveSpec == Spec /\ WF_vars(ExecTimeout) /\ WF_vars(ClosedByAbort)

(***************************************************************************)
(* One call of handleToolCalls, from its first line to its return, with an *)
(* operator who answers every prompt and a host on which every execution   *)
(* that was dispatched comes to its end                                    *)
(***************************************************************************)
\* the state in which processMessage calls handleToolCalls for the first
\* response of the planner: /connect has succeeded, the message and the
\* response are in the store
BatchInit ==
  \E sudoPass \in Credentials \cup {NULL}, message \in UserMessages,
     text \in PlannerTexts \ {<<>>},
     batch \in BatchesWithin(MaxCalls, MaxCmds) \ {<<>>} :
    LET blocks == ToolBlocks(batch, 1)
        c == addMessage(addMessage(NoneAppended, 100000, "user", "string", message),
                        100000, "assistant", "blocks", TextBlocks(text) \o blocks)
    IN  /\ isConnected = TRUE
        /\ connection = 1
        /\ channel = "none"
        /\ fullCommand = <<>>
        /\ aborted = FALSE
        /\ keyCapture = FALSE
        /\ sudoPassword = sudoPass
        /\ pc = "loop"
        /\ toolCalls = blocks
        /\ tc = 1
        /\ ci = 0
        /\ results = <<>>
        /\ sequenceResults = <<>>
        /\ maxContextTokens = 100000
        /\ messages = c.messages
        /\ communicationLog = c.communicationLog
        /\ commandLog = c.commandLog
        /\ trace = <<Event("execute", NoInst, TestCommand, FALSE, 0, <<>>),
                     Event("exec", NoInst, TestCommand, FALSE, 0, <<>>),
                     Event("message", NoInst, message, FALSE, 0, <<>>)>>
        /\ turn = 1
        /\ callsUsed = Len(batch)
        /\ cmdsUsed = BatchCmdCount(batch)
        /\ inputs = 2
        /\ faults = 0
        /\ stdout = <<>>
        /\ stderr = <<>>
        /\ graceTimers = {}
        /\ execTimers = {}
        /\ closingStreams = {}
        /\ transports = <<>>
        /\ many = NoMany
        /\ route = NoRoute
        /\ appended = NoneAppended

OperatorAnswers ==
  \/ \E answer \in Answers : Confirm(answer)
  \/ \E answer \in Answers : ContinueAnswer(answer)

\* the remote process ends with success or with a failure
BatchOutcomes == {r \in RemoteResults(fullCommand) : r.code \in {0, 1}}

\* the callback of connection.exec runs, and a stream that was opened closes
ExecutionCompletes ==
  \/ \E err \in BOOLEAN : ExecCallback(err)
  \/ \E r \in BatchOutcomes : ExecClose(r)
  \/ \E err \in BOOLEAN : StreamCallback(err)
  \/ \E r \in BatchOutcomes : StreamClose(r)

\* the steps of handleToolCalls, of the operator and of the host; the host
\* may also refuse a channel, let a command run into its timeout or close
\* the transport, and the operator may cancel a streaming command
BatchNext ==
  \/ HandleNext
  \/ SequenceNext
  \/ OperatorAnswers
  \/ ExecutionCompletes
  \/ ExecTimeout
  \/ StreamAbort
  \/ RemoteClose

BatchSpec ==
  /\ BatchInit
  /\ [][BatchNext]_vars
  /\ WF_vars(HandleNext)
  /\ WF_vars(SequenceNext)
  /\ WF_vars(OperatorAnswers)
  /\ WF_vars(ExecutionCompletes)

(***************************************************************************)
(* Properties                                                              *)
(***************************************************************************)
Idx == 1..Len(trace)

\* a call of SSHManager.execute or SSHManager.executeStreaming
IsCall(e) == e.ev \in {"execute", "executeStreaming"}

\* a call of the session or of its transport
IsDispatch(e) == IsCall(e) \/ e.ev = "exec"

\* the event belongs to a command of the batch being handled
OfThisTurn(e) == turn > 0 /\ e.inst[1] = turn

\* the request of the planner behind an instance of the current batch
RequestAt(inst) ==
  IF inst[3] = 0 THEN toolCalls[inst[2]].input
  ELSE toolCalls[inst[2]].input.commands[inst[3]]

AffirmedAt(j, inst) ==
  trace[j].ev = "confirm" /\ trace[j].inst = inst /\ trace[j].flag

DeclinedAt(j, inst) ==
  trace[j].ev = "confirm" /\ trace[j].inst = inst /\ ~trace[j].flag

\* C1: a command of the planner is handed to the session or to the transport
\* only after the operator answered yes to 'Execute this command?' for that
\* very instance, and an instance is handed over at most once per yes.
C1_ConfirmedBeforeDispatch ==
  \A i \in Idx :
    (IsDispatch(trace[i]) /\ trace[i].inst # NoInst) =>
      /\ \E j \in 1..(i - 1) : AffirmedAt(j, trace[i].inst)
      /\ Cardinality({k \in Idx : trace[k].ev = trace[i].ev
                                    /\ trace[k].inst = trace[i].inst})
           <= Cardinality({j \in Idx : AffirmedAt(j, trace[i].inst)})

\* a command was dispatched after a yes while another one of the same run
\* was declined
C1_Witness ==
  /\ \E i \in Idx : trace[i].ev = "exec" /\ trace[i].inst # NoInst
  /\ \E j \in Idx : trace[j].ev = "confirm" /\ ~trace[j].flag

\* C2: for a declined command nothing is called on the session, nothing is
\* logged, and what the planner is told is the decline value: the fixed text
\* for a single command, the skipped entry for a sequence element. No
\* executed command is ever reported with that value.
C2_DeclineIsDistinct ==
  /\ \A j \in Idx :
       (trace[j].ev = "confirm" /\ ~trace[j].flag) =>
         \A i \in Idx :
           trace[i].inst = trace[j].inst =>
             trace[i].ev \in {"shown", "confirm"}
  /\ \A k \in 1..Len(results) :
       LET inst == <<turn, results[k].tool_use_id - 10 * turn, 0>>
       IN  toolCalls[inst[2]].name = "execute_command" =>
             ((results[k].content = DeclinedText)
                <=> (\E j \in Idx : DeclinedAt(j, inst)))
  /\ pc \in {"seqloop", "confirm", "exec", "stream", "continue"} /\ ci > 0 =>
       \A k \in 1..Len(sequenceResults) :
         /\ ("skipped" \in DOMAIN sequenceResults[k])
              <=> (\E j \in Idx : DeclinedAt(j, <<turn, tc, k>>))
         /\ "skipped" \in DOMAIN sequenceResults[k] =>
              sequenceResults[k] = SkippedEntry(RequestAt(<<turn, tc, k>>))
  /\ Len(commandLog) <= Cardinality({i \in Idx : trace[i].ev = "logged"})

\* one command of the batch was declined and another failed on the host
\* with the very sentence of the decline on its error stream
C2_Witness ==
  /\ \E k \in 1..Len(results) : results[k].content = DeclinedText
  /\ \E i \in Idx : /\ trace[i].ev = "result"
                    /\ OfThisTurn(trace[i])
                    /\ trace[i].text = DeclinedText
                    /\ trace[i].code # 0

\* C3: for every command of the batch the text shown to the operator, the
\* text passed to execute / executeStreaming and the text written to the
\* command log are the text of the planner's request; the text handed to the
\* transport is that text, preceded by the elevation wrapping built from the
\* credential exactly when the request asks for elevation.
C3_CommandTextVerbatim ==
  \A i \in Idx :
    (OfThisTurn(trace[i]) /\ trace[i].inst # NoInst) =>
      LET req == RequestAt(trace[i].inst)
      IN  /\ (trace[i].ev = "shown" \/ IsCall(trace[i]) \/ trace[i].ev = "logged")
               => trace[i].text = req.command
          /\ trace[i].ev = "exec" =>
               trace[i].text =
                 IF Truthy(req.requires_sudo)
                 THEN SudoPrefix(trace[i].opt) \o req.command
                 ELSE req.command
          /\ (trace[i].ev = "logged" /\ pc \notin {"prompt", "chat"}) =>
               \E k \in 1..Len(commandLog) : commandLog[k].command = req.command

\* an elevated command whose text ends in a blank has been shown, sent and
\* logged
C3_Witness ==
  \E i \in Idx :
    /\ trace[i].ev = "logged"
    /\ OfThisTurn(trace[i])
    /\ Truthy(RequestAt(trace[i].inst).requires_sudo)
    /\ Trim(trace[i].text) # trace[i].text

NoShownBetween(i, j) ==
  \A m \in (i + 1)..j :
    trace[m].ev = "shown" => \E n \in (i + 1)..(m - 1) : trace[n].ev = "message"

\* C4: once the operator answers no to the continue prompt, the results of
\* that handleToolCalls call carry the aborted-by-operator marker, and no
\* further command is shown before the next message of the operator.
C4_AbortEndsPlannerTurn ==
  \A i \in Idx :
    (trace[i].ev = "continueAnswer" /\ ~trace[i].flag) =>
      /\ NoShownBetween(i, Len(trace))
      /\ (pc = "return" /\ OfThisTurn(trace[i])) =>
           \E k \in 1..Len(results) : Includes(results[k].content, AbortedText)

\* C5: in a sequence the continue prompt follows a result exactly when its
\* exit code is not zero and it is not aborted, and after the prompt no later
\* element of the sequence is shown or executed without a yes.
C5_ContinuePromptOnFailure ==
  \A i \in Idx :
    trace[i].inst[3] > 0 =>
      /\ trace[i].ev = "result" =>
           ((trace[i].code # 0 /\ ~trace[i].flag)
              <=> (/\ i < Len(trace)
                   /\ trace[i + 1].ev = "continueAsk"
                   /\ trace[i + 1].inst = trace[i].inst))
      /\ trace[i].ev = "continueAsk" =>
           /\ i > 1
           /\ trace[i - 1].ev = "result"
           /\ trace[i - 1].inst = trace[i].inst
           /\ trace[i - 1].code # 0
           /\ ~trace[i - 1].flag
           /\ \A j \in (i + 1)..Len(trace) :
                (/\ trace[j].ev \in {"shown", "execute", "executeStreaming", "exec"}
                 /\ trace[j].inst[1] = trace[i].inst[1]
                 /\ trace[j].inst[2] = trace[i].inst[2])
                => /\ i + 1 <= Len(trace)
                   /\ trace[i + 1].ev = "continueAnswer"
                   /\ trace[i + 1].flag

\* in one sequence the first element failed, the operator chose to go on,
\* and the second element, a stream, was cancelled and raised no prompt
C5_Witness ==
  /\ pc = "seqloop"
  /\ \E i \in Idx : /\ trace[i].ev = "continueAnswer"
                    /\ trace[i].flag
                    /\ trace[i].inst = <<turn, tc, 1>>
  /\ trace[Len(trace)].ev = "result"
  /\ trace[Len(trace)].inst = <<turn, tc, 2>>
  /\ trace[Len(trace)].flag
  /\ trace[Len(trace)].code = 130

\* C6: within one handleToolCalls call an instance is handed to the session
\* at most once, and after a yes to the continue prompt the next command
\* shown is a later request, never the failed one.
C6_NoRetry ==
  /\ \A i, j \in Idx :
       (/\ i < j
        /\ IsDispatch(trace[i])
        /\ trace[i].inst # NoInst
        /\ trace[j].ev = trace[i].ev)
       => trace[j].inst # trace[i].inst
  /\ \A i, j \in Idx :
       (/\ i < j
        /\ trace[i].ev = "continueAnswer"
        /\ trace[i].flag
        /\ trace[j].ev = "shown")
       => trace[j].inst # trace[i].inst

\* a command failed on the host, the operator chose to go on, and the next
\* request is up for confirmation
C6_Witness ==
  /\ pc = "confirm"
  /\ \E i \in Idx : /\ trace[i].ev = "continueAnswer"
                    /\ trace[i].flag
                    /\ trace[i].inst[1] = turn
                    /\ \E j \in 1..(i - 1) : trace[j].ev = "exec"
                                             /\ trace[j].inst = trace[i].inst

KnownTools == {"execute_command", "execute_command_sequence"}

\* C7: when handleToolCalls returns, every tool call it went past whose name
\* is not one of the two known ones has a result or an error shown to the
\* operator.
C7_UnknownToolIsAnError ==
  pc = "return" =>
    \A k \in 1..Len(toolCalls) :
      (k < tc /\ toolCalls[k].name \notin KnownTools) =>
        \/ \E n \in 1..Len(results) : results[n].tool_use_id = toolCalls[k].id
        \/ \E i \in Idx : trace[i].ev = "error" /\ trace[i].inst = <<turn, k, 0>>

InMessage(m, c) ==
  CASE m.kind = "string" -> Includes(m.content, c)
    [] m.kind = "tool_results" ->
         \E n \in 1..Len(m.content) : Includes(m.content[n].content, c)
    [] m.kind = "blocks" ->
         \E n \in 1..Len(m.content) :
           m.content[n].type = "text" /\ Includes(m.content[n].text, c)

\* C9: no credential occurs in an entry of the dialogue log, of the command
\* log or of the message list, nor in a tool result; a credential is passed
\* only in the options of a call for a command that asks for elevation.
C9_CredentialStaysOutOfContext ==
  /\ \A c \in Credentials :
       /\ \A k \in 1..Len(communicationLog) : ~Includes(communicationLog[k].content, c)
       /\ \A k \in 1..Len(commandLog) :
            ~Includes(commandLog[k].command, c) /\ ~Includes(commandLog[k].output, c)
       /\ \A k \in 1..Len(messages) : ~InMessage(messages[k], c)
       /\ \A k \in 1..Len(results) : ~Includes(results[k].content, c)
  /\ \A i \in Idx :
       (IsCall(trace[i]) /\ trace[i].opt # <<>>) =>
         /\ OfThisTurn(trace[i]) => Truthy(RequestAt(trace[i].inst).requires_sudo)
         /\ trace[i].flag

\* C10: the text handed to the transport for an elevated command does not
\* contain the credential.
C10_CredentialNotInCommandLine ==
  \A i \in Idx :
    (trace[i].ev = "exec" /\ trace[i].opt # <<>>) =>
      ~Includes(trace[i].text, trace[i].opt)

\* C11: when the channel of a streaming call closes after abort() was
\* called, the call resolves with aborted = true and exit code 130, whatever
\* code the remote process reported and whatever output had been delivered.
C11_CancelYields130 ==
  \A i \in Idx :
    trace[i].ev = "close" =>
      /\ (\E k \in 1..(i - 1) : trace[k].ev = "abort" /\ trace[k].inst = trace[i].inst)
           => trace[i].flag
      /\ trace[i].flag =>
           \E j \in (i + 1)..Len(trace) :
             /\ trace[j].ev = "result"
             /\ trace[j].inst = trace[i].inst
             /\ trace[j].flag
             /\ trace[j].code = 130

\* a cancelled stream whose process reported exit code 0 and had delivered a
\* chunk before the cancel
C11_Witness ==
  \E i \in Idx :
    /\ trace[i].ev = "close" /\ trace[i].flag /\ trace[i].code = 0
    /\ \E k \in 1..(i - 1) :
         trace[k].ev = "data" /\ trace[k].inst = trace[i].inst /\ ~trace[k].flag

\* C13: no chunk is handed to onData / onError once abort() has been called:
\* every chunk of a streaming call is delivered before its cancel.
C13_NoChunkAfterCancel ==
  \A i \in Idx : trace[i].ev = "data" => ~trace[i].flag

\* C12: a streaming call that has been cancelled and whose channel is open
\* eventually completes.
C12_CancelCompletes ==
  (pc = "stream" /\ aborted /\ channel = "open") ~> (pc # "stream")

\* C17: an execute call does not stay for ever in front of the callback of
\* the channel request.
C17_ExecuteCompletes ==
  (pc = "exec" /\ channel = "pending") ~> ~(pc = "exec" /\ channel = "pending")

\* the execute calls made since the last executeMany call
ExecutesOfMany ==
  {i \in Idx : /\ trace[i].ev = "execute"
               /\ \E j \in 1..(i - 1) : trace[j].ev = "executeMany"
               /\ \A m \in (i + 1)..Len(trace) : trace[m].ev # "executeMany"}

\* C14: executeMany runs the commands in order and stops at the first one
\* whose exit code is not zero; what it returns are the results of exactly
\* the commands it ran: a prefix of the command list that ends with the
\* first failure, or the whole list when nothing failed.
C14_ExecuteManyPrefix ==
  LET n == Len(many.results) IN
  /\ many.state \in {"running", "returned"} =>
       /\ n <= Len(many.commands)
       /\ Cardinality(ExecutesOfMany) = n
       /\ \A k \in 1..n : many.results[k].command = many.commands[k]
       /\ \A k \in 1..(n - 1) : many.results[k].exitCode = 0
  /\ many.state = "running" =>
       /\ n < Len(many.commands)
       /\ \A k \in 1..n : many.results[k].exitCode = 0
  /\ (many.state = "returned" /\ n < Len(many.commands)) =>
       n > 0 /\ many.results[n].exitCode # 0

\* executeMany returned after the second of three commands failed
C14_Witness ==
  /\ many.state = "returned"
  /\ Len(many.commands) = 3
  /\ Len(many.results) = 2
  /\ many.results[1].exitCode = 0
  /\ many.results[2].exitCode # 0

\* C15: execute and executeStreaming called while the Client held by the
\* session is not connected (never connected, connect failed, disconnect()
\* called, closed or failed on the remote side) throw the not-connected
\* error at once and hand nothing to a transport.
C15_NotConnectedFailsAtOnce ==
  /\ (~Connecting /\ ~TransportUp) => ~isConnected
  /\ \A i \in Idx :
       (IsCall(trace[i]) /\ trace[i].inst[3] = 0) =>
         /\ i < Len(trace)
         /\ trace[i + 1].ev = "throw"
         /\ trace[i + 1].text = NotConnectedText

\* the second execute of an executeMany call finds the Client the session
\* holds no longer connected and throws
C15_Witness ==
  \E i \in Idx :
    /\ trace[i].ev = "execute" /\ trace[i].inst[2] # 0 /\ trace[i].inst[3] = 0
    /\ i < Len(trace) /\ trace[i + 1].ev = "throw"
    /\ \E j \in 1..(i - 1) : trace[j].ev = "resolve"

\* C19: of the Clients the session has created at most one is connected.
C19_AtMostOneTransport ==
  Cardinality({k \in 1..Len(transports) : transports[k] = "ready"}) <= 1

C18_ExplicitFlagDecides ==
  route.target # "none" =>
    LET req == route.request IN
    /\ req.is_streaming = "true" => route.target = "executeStreaming"
    /\ req.is_streaming = "false" => route.target = "execute"
    /\ req.is_streaming = "undefined" =>
         (route.target = "executeStreaming" <=> isStreamingCommand(req.command))

\* a is what is left of b after removing elements from its front
IsSuffix(a, b) ==
  /\ Len(a) <= Len(b)
  /\ a = SubSeq(b, Len(b) - Len(a) + 1, Len(b))

\* C20: after any sequence of addMessage, addCommandOutput and compactions
\* since the last clear(), the communication log and the command log are
\* each a contiguous suffix of the entries pushed to them: compaction drops
\* entries from the oldest end only and leaves the survivors and their order
\* as they were
C20_LogsAreSuffixes ==
  /\ IsSuffix(communicationLog, appended.communicationLog)
  /\ IsSuffix(commandLog, appended.commandLog)

\* both logs have lost entries to compaction and still hold two different ones
C20_Witness ==
  /\ Len(communicationLog) < Len(appended.communicationLog)
  /\ Len(commandLog) < Len(appended.commandLog)
  /\ \E j, k \in 1..Len(communicationLog) : communicationLog[j] # communicationLog[k]

\* addMessage has trimmed the communication log or the message list since
\* the last clear()
Trimmed ==
  \/ Len(communicationLog) < Len(appended.communicationLog)
  \/ Len(messages) < Len(appended.messages)

\* C21: compacting the communication log never takes it below minKeep
\* entries, and once a compaction has trimmed anything the message list is as
\* long as the communication log, whatever mix of user messages, assistant
\* messages with and without text and tool-result messages was added
C21_FloorAndLockStep ==
  /\ Len(communicationLog) < Len(appended.communicationLog) =>
       Len(communicationLog) >= minKeep
  /\ Trimmed => Len(messages) = Len(communicationLog)

\* the command log and the communication log as checkAndCompact finds them in
\* a step that adds a message or a command output: the log of before the step
\* with the entry the step pushed
CommandLogPushed ==
  commandLog \o Pushed(appended.commandLog, appended'.commandLog)

CommunicationLogPushed ==
  communicationLog \o Pushed(appended.communicationLog, appended'.communicationLog)

\* C22: compaction never empties a command log that holds an entry and never
\* raises its token estimate, and whenever the command-log step of
\* checkAndCompact runs (the two logs together are over half the context and
\* the command log is not empty) it leaves the command log at no more than
\* half of the estimate it had, or with one entry
C22_CommandLogHalved ==
  [][appended' # NoneAppended =>
       LET before == estimateTokens(getCommandLogString(CommandLogPushed))
           after == estimateTokens(getCommandLogString(commandLog'))
           total == before
                    + estimateTokens(getCommunicationLogString(CommunicationLogPushed))
       IN  /\ CommandLogPushed # <<>> => commandLog' # <<>>
           /\ after <= before
           /\ (2 * total > maxContextTokens /\ before > 0) =>
                (2 * after <= before \/ Len(commandLog') = 1)]_vars

\* the command log was cut to half its estimate and still holds two entries
C22_Witness ==
  /\ Len(commandLog) < Len(appended.commandLog)
  /\ Len(commandLog) >= 2

\* C23: when addMessage or addCommandOutput has returned, the estimate of the
\* communication log plus the estimate of the command log is at most
\* halfContext, half of maxContextTokens
C23_WithinBudget ==
  2 * (estimateTokens(getCommunicationLogString(communicationLog))
       + estimateTokens(getCommandLogString(commandLog))) <= maxContextTokens

\* the entries written to the command log for an instance before event i
LoggedBefore(i, inst) ==
  {k \in 1..(i - 1) : trace[k].ev = "logged" /\ trace[k].inst = inst}

\* C24: a confirmed command that was handed to the transport has, when its
\* result is returned to handleToolCalls, exactly one entry in the command
\* log, with the command text of the request and the exit code of the
\* result, written before 'Continue with remaining commands?' is asked;
\* whatever the dispatch came to (close, channel error, timeout)
C24_DispatchedIsLogged ==
  \A i \in Idx :
    (trace[i].ev = "result"
       /\ \E j \in 1..(i - 1) : trace[j].ev = "exec" /\ trace[j].inst = trace[i].inst) =>
      /\ Cardinality(LoggedBefore(i, trace[i].inst)) = 1
      /\ \A k \in LoggedBefore(i, trace[i].inst) :
           /\ trace[k].code = trace[i].code
           /\ \E j \in 1..(k - 1) : /\ IsCall(trace[j])
                                     /\ trace[j].inst = trace[i].inst
                                     /\ trace[j].text = trace[k].text
      /\ \A m \in Idx :
           (trace[m].ev = "continueAsk" /\ trace[m].inst = trace[i].inst) =>
             \E k \in LoggedBefore(i, trace[i].inst) : k < m

\* C25: a command of an execute_command_sequence other than the first is
\* handed to the session only if the command before it in the sequence was
\* executed and returned exit code 0
C25_RunsOnlyAfterSuccess ==
  \A i \in Idx :
    (IsCall(trace[i]) /\ trace[i].inst[3] > 1) =>
      \E j \in 1..(i - 1) :
        /\ trace[j].ev = "result"
        /\ trace[j].inst = <<trace[i].inst[1], trace[i].inst[2], trace[i].inst[3] - 1>>
        /\ trace[j].code = 0

\* characters that end an unquoted word of a shell command line
WordEnd == {" ", "|", ";", "&", "<", ">", "(", ")"}

RECURSIVE ShellWord(_, _, _)
\* a POSIX shell reading one word off the front of s: between single quotes
\* every character stands for itself up to the next single quote; outside
\* them a backslash makes the next character stand for itself and a blank or
\* an operator character ends the word.  quoted tells whether the reader is
\* between single quotes, acc is the word read so far.
ShellWord(s, quoted, acc) ==
  IF s = <<>> THEN [word |-> acc, rest |-> <<>>, closed |-> ~quoted]
  ELSE IF quoted
  THEN IF Head(s) = "'" THEN ShellWord(Tail(s), FALSE, acc)
       ELSE ShellWord(Tail(s), TRUE, Append(acc, Head(s)))
  ELSE IF Head(s) = "'" THEN ShellWord(Tail(s), TRUE, acc)
  ELSE IF Head(s) = "\\" /\ Len(s) > 1
  THEN ShellWord(Tail(Tail(s)), FALSE, Append(acc, s[2]))
  ELSE IF Head(s) \in WordEnd THEN [word |-> acc, rest |-> s, closed |-> TRUE]
  ELSE ShellWord(Tail(s), FALSE, Append(acc, Head(s)))

\* the command line after its first word and the blank behind it
AfterEcho(line) == SubSeq(line, 6, Len(line))

PipeToSudo ==
  <<" ", "|", " ", "s", "u", "d", "o", " ", "-", "S", " ", "-", "p", " ", "'", "'", " ">>

\* C26: the argument of echo in the wrapped command line, read as a shell
\* reads it, is the credential, character for character, also when the
\* credential holds single quotes; the quoting is closed at its end and what
\* follows the word is the pipe to sudo and the command, nothing of the
\* credential
C26_EscapeIsInvertible ==
  fullCommand # <<>> =>
    LET read == ShellWord(AfterEcho(fullCommand), FALSE, <<>>)
    IN  /\ SubSeq(fullCommand, 1, 5) = <<"e", "c", "h", "o", " ">>
        /\ read.closed
        /\ read.word = sudoPassword
        /\ \E command \in WrapCommands : read.rest = PipeToSudo \o command

\* a credential with a single quote and a command separator has been wrapped
C26_Witness ==
  /\ fullCommand # <<>>
  /\ \E j, k \in 1..Len(sudoPassword) : sudoPassword[j] = "'" /\ sudoPassword[k] = ";"

\* the connect calls made up to event i
ConnectsUpTo(i) == {j \in 1..i : trace[j].ev = "connect"}

\* C27: an 'error' of the Client while connect waits rejects the connect
\* call and leaves isConnected false; the session creates no Client of its
\* own to try again; and an execute or executeStreaming call made after the
\* rejection and before the caller's next connect throws the not-connected
\* error
C27_ConnectErrorDisconnects ==
  /\ Len(transports) = Cardinality(ConnectsUpTo(Len(trace)))
  /\ \A i \in Idx :
       trace[i].ev = "connectRejected" =>
         /\ ~trace[i].flag
         /\ \E j \in 1..(i - 1) : trace[j].ev = "connect" /\ trace[j].inst = trace[i].inst
         /\ ConnectsUpTo(Len(trace)) = ConnectsUpTo(i) => ~isConnected
         /\ \A m \in (i + 1)..Len(trace) :
              (IsCall(trace[m]) /\ ConnectsUpTo(m) = ConnectsUpTo(i)) =>
                /\ m < Len(trace)
                /\ trace[m + 1].ev = "throw"
                /\ trace[m + 1].text = NotConnectedText

\* the second connect of a session whose first Client is connected was
\* rejected, and an execute made after it threw
C27_Witness ==
  \E i \in Idx :
    /\ trace[i].ev = "connectRejected"
    /\ trace[i].inst[1] = 2
    /\ transports[1] = "ready"
    /\ \E m \in (i + 1)..Len(trace) : IsCall(trace[m])

\* the command handed to the transport at event j has produced its result
\* before event i
Settled(j, i) ==
  \E m \in (j + 1)..(i - 1) : trace[m].ev = "result" /\ trace[m].inst = trace[j].inst

C29_ClearResetsStoreOnly ==
  [][ClearCommand =>
       /\ messages' = <<>>
       /\ communicationLog' = <<>>
       /\ commandLog' = <<>>
       /\ isConnected' = isConnected
       /\ connection' = connection
       /\ sudoPassword' = sudoPassword]_vars

\* a connected session that holds a credential and has logged a command has
\* been cleared
C29_Witness ==
  /\ isConnected
  /\ sudoPassword # NULL
  /\ \E i \in Idx : trace[i].ev = "logged"
  /\ messages = <<>>
  /\ communicationLog = <<>>
  /\ commandLog = <<>>

\* C30: the interrupt is sent before the channel is closed by force (a forced
\* close follows an abort() that sent the signal for the same command), and
\* the forced close is issued only on a channel that has not closed by the
\* end of the grace period
C30_SignalThenCloseIfStillOpen ==
  \A i \in Idx :
    trace[i].ev = "forceClose" =>
      /\ \E j \in 1..(i - 1) :
           trace[j].ev = "abort" /\ trace[j].inst = trace[i].inst /\ trace[j].flag
      /\ trace[i].flag

\* event j belongs to the instance of event i and comes before it
EarlierOf(j, i, ev) ==
  j < i /\ trace[j].ev = ev /\ trace[j].inst = trace[i].inst

\* C31: a result is marked aborted only when it is the result of an
\* executeStreaming call whose abort() the operator invoked before the
\* stream closed, and then its exit code is 130; the results of execute, of
\* the path without credential (no call made) and of a rejected call are
\* not marked
C31_AbortedOnlyWhenCancelled ==
  \A i \in Idx :
    trace[i].ev = "result" =>
      /\ trace[i].flag =>
           /\ trace[i].code = 130
           /\ \E a \in 1..(i - 1) :
                /\ EarlierOf(a, i, "abort")
                /\ \E c \in 1..(a - 1) : EarlierOf(c, i, "executeStreaming")
                /\ \E k \in (a + 1)..(i - 1) : EarlierOf(k, i, "close")
      /\ (\E c \in 1..(i - 1) : EarlierOf(c, i, "execute")) => ~trace[i].flag
      /\ (i > 1 /\ trace[i - 1].ev = "reject") => ~trace[i].flag

\* a result marked aborted whose cancel came before the channel was open,
\* so that no signal was sent and the process ended by itself
C31_Witness ==
  \E i \in Idx :
    /\ trace[i].ev = "result" /\ trace[i].flag
    /\ \E a \in 1..(i - 1) : EarlierOf(a, i, "abort") /\ ~trace[a].flag

\* the message list as checkAndCompact finds it in a step that adds a message
MessagesPushed == messages \o Pushed(appended.messages, appended'.messages)

\* the estimate of the two logs together, and of the communication log
\* alone, as checkAndCompact finds them
TotalPushed ==
  estimateTokens(getCommunicationLogString(CommunicationLogPushed))
  + estimateTokens(getCommandLogString(CommandLogPushed))

CommunicationPushed == estimateTokens(getCommunicationLogString(CommunicationLogPushed))

\* nothing was removed from the lists in the step
NothingRemoved ==
  /\ commandLog' = CommandLogPushed
  /\ communicationLog' = CommunicationLogPushed
  /\ messages' = MessagesPushed

\* the communication log or the message list lost entries in the step
DialogueTrimmed ==
  communicationLog' # CommunicationLogPushed \/ messages' # MessagesPushed

\* C32: an append after which the two logs together are not over half the
\* context removes nothing from the logs and the message list; the
\* communication log and the message list are trimmed only in an append in
\* which the two logs together were over half the context and the
\* communication log alone over 33% of it
C32_TiersAt33Percent ==
  [][appended' # NoneAppended =>
       /\ 2 * TotalPushed <= maxContextTokens => NothingRemoved
       /\ DialogueTrimmed =>
            /\ 2 * TotalPushed > maxContextTokens
            /\ 100 * CommunicationPushed > 33 * maxContextTokens]_vars

\* C32 as stated, with one third of the context for the second tier
C32_TiersAtOneThird ==
  [][appended' # NoneAppended =>
       /\ 2 * TotalPushed <= maxContextTokens => NothingRemoved
       /\ DialogueTrimmed =>
            /\ 2 * TotalPushed > maxContextTokens
            /\ 3 * CommunicationPushed > maxContextTokens]_vars

\* the communication log has been trimmed to minKeep entries, after more
\* than minKeep appends that removed nothing
C32_Witness ==
  /\ Len(appended.communicationLog) > minKeep
  /\ Len(communicationLog) < Len(appended.communicationLog)
  /\ Len(messages) = minKeep

\* the positions of the returned list that carry the id of tool call k
ResultsOf(k) == {j \in DOMAIN results : results[j].tool_use_id = toolCalls[k].id}

\* the inner loop of handleToolCalls is left: past the last element, or by
\* the break on 'Continue with remaining commands?'
SequenceLeft == ci > 0 /\ pc \in {"seqloop", "continue"} /\ pc' = "loop"

\* the element of a sequence at which the inner loop was left by the break
\* pushes the one tool_result of the call, holding an entry for each element
\* up to there, in order, the declined ones as skipped entries
SequenceResultComplete ==
  [][SequenceLeft =>
       LET commands == toolCalls[tc].input.commands
           reached == IF pc = "continue" THEN ci ELSE Len(commands)
       IN  /\ results' = Append(results,
                            ToolResult(toolCalls[tc].id,
                                       StringifySequence(sequenceResults)))
           /\ Len(sequenceResults) = reached
           /\ \A i \in 1..reached :
                 /\ sequenceResults[i].command = commands[i].command
                 /\ ("skipped" \in DOMAIN sequenceResults[i])
                      <=> \E j \in Idx : DeclinedAt(j, <<turn, tc, i>>)]_vars

\* C33: when handleToolCalls returns, the list holds exactly one tool_result
\* for every execute_command_sequence call of the batch
C33_OneResultPerSequence ==
  pc = "return" =>
    \A k \in DOMAIN toolCalls :
       toolCalls[k].name = "execute_command_sequence" => Cardinality(ResultsOf(k)) = 1

\* C34: when handleToolCalls returns from a batch of calls of the two known
\* tools, the list holds one tool_result for each tool call of the batch, in
\* the order of the calls and with the id of its call
C34_OneResultPerCall ==
  pc = "return" /\ (\A k \in DOMAIN toolCalls : toolCalls[k].name \in KnownTools) =>
    /\ Len(results) = Len(toolCalls)
    /\ \A k \in DOMAIN toolCalls : results[k].tool_use_id = toolCalls[k].id

\* C35: isConnected is true only while the Client the session holds exists
\* and is connected ('ready' received, no 'close' or 'error' since)
C35_FlagMeansCurrentTransportUp == isConnected => TransportUp

\* C36: outside the wait of executeStreamingCommand for its promise no
\* streaming key listener is installed
C36_KeyCaptureReleased == keyCapture => pc = "stream"

\* what the step adds to the trace
NewEvents == SubSeq(trace', Len(trace) + 1, Len(trace'))

\* the results handed to handleToolCalls for command inst among the events
OutcomesIn(events, inst) ==
  {i \in DOMAIN events : events[i].ev = "result" /\ events[i].inst = inst}

\* the stream of the execute call in flight closes while its timer is armed
CloseFirst ==
  pc = "exec" /\ Inst \in execTimers /\ Inst \notin execTimers'
  /\ closingStreams' = closingStreams

\* the timer of the execute call in flight fires while its stream is open
TimeoutFirst == pc = "exec" /\ Inst \in execTimers /\ Inst \in closingStreams'

\* the close event of a stream that the timer has closed before
LateEvent == \E inst \in closingStreams : inst \notin closingStreams'

\* C37: an execute call has one outcome.  When its stream closes with the
\* timer armed the timer is cleared and the outcome is the close result;
\* when the timer fires with the stream open the outcome is the timeout
\* error; the close event that follows a timeout adds no outcome and leaves
\* the channel, the timer and the position of a later command as they are
C37_OneOutcomePerExecute ==
  [][/\ CloseFirst =>
          /\ OutcomesIn(trace, Inst) = {}
          /\ Cardinality(OutcomesIn(NewEvents, Inst)) = 1
          /\ \A i \in DOMAIN NewEvents : NewEvents[i].ev # "reject"
          /\ \E i, j \in DOMAIN NewEvents :
                /\ NewEvents[i].ev = "close" /\ NewEvents[j].ev = "result"
                /\ NewEvents[j].code = NewEvents[i].code
          /\ execTimers' = {}
     /\ TimeoutFirst =>
          /\ OutcomesIn(trace, Inst) = {}
          /\ Cardinality(OutcomesIn(NewEvents, Inst)) = 1
          /\ \A i \in OutcomesIn(NewEvents, Inst) :
                NewEvents[i].text = TimeoutText /\ NewEvents[i].code = 1
          /\ \A i \in DOMAIN NewEvents : NewEvents[i].ev # "close"
     /\ LateEvent =>
          /\ \A i \in DOMAIN NewEvents : NewEvents[i].ev = "lateClose"
          /\ \A inst \in closingStreams : Cardinality(OutcomesIn(trace, inst)) = 1
          /\ UNCHANGED <<sshVars, execTimers, stdout, stderr, keyCapture, pc,
                         loopVars, storeVars>>]_vars

\* a command timed out, the close event of its stream arrived while the
\* channel of the next command was open, and that command has succeeded
C37_Witness ==
  \E i \in Idx :
    /\ trace[i].ev = "lateClose" /\ trace[i].flag
    /\ \E j \in (i + 1)..Len(trace) :
          /\ trace[j].ev = "result" /\ trace[j].inst # trace[i].inst
          /\ trace[j].code = 0

\* C38: the communication log never holds more entries than the message list
C38_LogWithinMessages == Len(communicationLog) <= Len(messages)

\* both lists have been trimmed to minKeep entries
C38_Witness ==
  /\ Len(appended.communicationLog) > minKeep
  /\ Len(communicationLog) = minKeep
  /\ Len(messages) = minKeep

Last(list) == list[Len(list)]

\* C39: when addMessage or addCommandOutput returns, the entry it pushed is
\* the last element of its log, and the message pushed the last element of
\* the message list
C39_NewEntrySurvives ==
  [][/\ Len(appended'.commandLog) > Len(appended.commandLog) =>
          commandLog' # <<>> /\ Last(commandLog') = Last(appended'.commandLog)
     /\ Len(appended'.communicationLog) > Len(appended.communicationLog) =>
          /\ communicationLog' # <<>>
          /\ Last(communicationLog') = Last(appended'.communicationLog)
     /\ Len(appended'.messages) > Len(appended.messages) =>
          messages' # <<>> /\ Last(messages') = Last(appended'.messages)]_vars

\* the command log has been cut down to the long output just appended, and
\* the communication log has been trimmed to minKeep entries of which the
\* last is a reply of the planner
C39_Witness ==
  /\ Len(appended.commandLog) >= 2
  /\ commandLog = <<Last(appended.commandLog)>>
  /\ Len(Last(commandLog).output) = LongLen
  /\ Len(appended.communicationLog) > minKeep
  /\ Len(communicationLog) = minKeep
  /\ Last(communicationLog).role = "Klaus"

\* the answers the operator has given to the prompts of this call
Prompts ==
  Cardinality({i \in Idx : /\ trace[i].ev \in {"confirm", "continueAnswer"}
                           /\ trace[i].inst[1] = turn})

\* no command of the batch has been presented twice
PresentedOnce ==
  \A i \in Idx : \A j \in (i + 1)..Len(trace) :
    (trace[i].ev = "shown" /\ trace[j].ev = "shown") => trace[j].inst # trace[i].inst

\* C40: handleToolCalls returns; no command is presented twice and the
\* operator is asked at most twice per command of the batch
C40_BatchTerminates ==
  /\ <>(pc = "return")
  /\ [](PresentedOnce /\ Prompts <= 2 * BatchCmdCount(toolCalls))

\* handleToolCalls has returned from a batch of two commands after four
\* answers of the operator
C40_Witness ==
  /\ pc = "return"
  /\ BatchCmdCount(toolCalls) = 2
  /\ Prompts = 4

====
